---------------------------- MODULE Spec2Model ----------------------------
(***************************************************************************)
(* Model of the snapshot pipeline of pooler:                               *)
(*   - PairTotalReservesProcessorDistributor (the epoch distributor),      *)
(*     callback_modules/pair_total_reserves.py lines 406-496;              *)
(*   - PairTotalReservesProcessor (the snapshot worker),                   *)
(*     callback_modules/pair_total_reserves.py lines 30-403;               *)
(*   - the rate-limit gate of the RPC helpers, uniswap_functions.py,       *)
(*     lines 58-65 and 598-697;                                            *)
(*   - the pricing engine, pooler/callback_modules/uniswap/pricing.py      *)
(*     lines 24-337;                                                       *)
(*   - the trade volume of a work unit, uniswap_functions.py lines 236-419 *)
(*     and 705-825 with pair_total_reserves.py lines 88-141;               *)
(*   - the pair metadata cache, uniswap_functions.py lines 486-580;        *)
(*   - the reserves of a work unit, uniswap_functions.py lines 584-701     *)
(*     with pair_total_reserves.py lines 39-86;                            *)
(*   - the prune of the price cache, uniswap_functions.py lines 214-234    *)
(*     and 338-351;                                                        *)
(*   - the aggregation worker, pooler/utils/aggregation_worker.py;         *)
(*   - the threading semaphore of pooler/utils/helper_functions.py, lines  *)
(*     153-169.                                                            *)
(* The distributor and the worker are operating-system processes of their  *)
(* own (multiprocessing); the other parts are followed one at a time, so a *)
(* behaviour follows one of them: proc says which.     The message bus,    *)
(* the shared store, the chain and the audit service are the environment;  *)
(* what they hand to the process (a delivery, a reply, an exception) is    *)
(* drawn with \E.                                                          *)
(***************************************************************************)
EXTENDS Integers, Sequences, FiniteSets, TLC

(* ------------------------------ bounds --------------------------------- *)
MaxInbound == 1      \* deliveries to the distributor that are explored
MaxContracts == 2    \* longest contracts list of a broadcast
MaxUnits == 1        \* deliveries to the worker that are explored
MaxBlock == 2        \* highest block height of an epoch
MaxCalls == 3        \* gated calls and foreign hits that are explored
MaxTime == 2         \* last tick of the store's clock that is explored
MaxHeight == 3       \* highest block height that is priced
MaxPriceCalls == 3   \* calls of get_token_price_in_block_range that are explored

(* ------------------------------ values --------------------------------- *)
\* An address is a pair identity and the spelling of its hex digits:
\* "mixed" is the checksummed spelling, "lower" the all-lowercase one.
Pairs == {"p1", "p2"}
Addresses == {[pair |-> "p1", cs |-> "mixed"],
              [pair |-> "p1", cs |-> "lower"],
              [pair |-> "p2", cs |-> "lower"]}
NoAddr == [pair |-> "none", cs |-> "lower"]

\* str.lower()
Lower(a) == [a EXCEPT !.cs = "lower"]

BroadcastIds == 1..MaxInbound
ProjectTag == "pair_total_reserves"

ContractLists == UNION {[1..n -> Addresses] : n \in 0..MaxContracts}

\* A message body.  kind says which JSON document the bytes hold.
Body(kind, bid, b, e, cs, c) ==
    [kind |-> kind, broadcast_id |-> bid, begin |-> b, end |-> e,
     contracts |-> cs, contract |-> c]
GarbageBody == Body("garbage", 0, 0, 0, <<>>, NoAddr)
NoBody == Body("none", 0, 0, 0, <<>>, NoAddr)

Epochs == {be \in (1..MaxBlock) \X (1..MaxBlock) : be[1] <= be[2]}

\* PowerloomCallbackEpoch: {broadcast_id, begin, end, contracts}
BroadcastEpochs(bid) ==
    {Body("epoch", bid, be[1], be[2], cs, NoAddr) :
        be \in {<<1, 1>>, <<1, MaxBlock>>}, cs \in ContractLists}

\* PowerloomCallbackProcessMessage: {broadcast_id, begin, end, contract}
WorkUnit(bid, b, e, c) == Body("unit", bid, b, e, <<>>, c)
UnitContracts == {Lower(a) : a \in Addresses}
WorkUnits ==
    {WorkUnit(bid, be[1], be[2], c) :
        bid \in BroadcastIds, be \in Epochs, c \in UnitContracts}

\* PowerloomCallbackEpoch.parse_raw / PowerloomCallbackProcessMessage.parse_raw
ParsesAsEpoch(body) == body.kind = "epoch"
\* faulty variant: the worker takes every body for a process unit
ParsesAsWorkUnit_AcceptsAll(body) == TRUE
ParsesAsWorkUnit(body) == body.kind = "unit"

\* Routing keys as their dot-separated segments.
RoutingKeys == {<<"cb", "pair_total_reserves">>,
                <<"cb", "pair_total_reserves", "seeder">>,
                <<"cb", "pair_total_reserves_worker", "processor">>,
                <<"cb", "trade_volume">>,
                <<"pair_total_reserves_worker">>}

\* 'pair_total_reserves' in s, for one segment s
SegmentContainsTag(s) == s \in {"pair_total_reserves", "pair_total_reserves_worker"}

\* 'pair_total_reserves' in method.routing_key (the tag holds no dot, so it
\* lies inside one segment)
KeyContainsTag(rk) == \E i \in 1..Len(rk) : SegmentContainsTag(rk[i])

VARIABLES
    proc,          \* the process the behaviour follows
    \* ---- distributor
    d_pc,          \* position of _distribute_callbacks / run
    d_rk,          \* method.routing_key of the delivery
    d_body,        \* body of the delivery
    d_idx,         \* index of the next entry of msg_obj.contracts
    d_trace,       \* effects of the current handler, in order
    d_unacked,     \* the broker holds the delivery as unacknowledged
    d_requeued,    \* the broker put the delivery back on the queue
    n_inbound,     \* deliveries to the distributor so far
    bus_out,       \* WorkUnits published to the subtopics exchange
    \* ---- shared store
    progress_log,  \* broadcastProcessingLogs zset of each broadcast
    failed_q,      \* failed_pair_total_reserves_epochs list of each pair
    \* ---- worker
    w_pc,          \* position of _on_rabbitmq_message
    w_body,        \* message.body of the delivery
    w_block,       \* block_num of the reserves loop
    w_reserves,    \* pair_total_reserves_epoch_snapshot: unset, none, built
    w_resmap,      \* blocks that have an entry in the two reserves maps
    w_ts,          \* max_block_timestamp: unset, wallclock, block
    w_trade,       \* trade_vol_epoch_snapshot: unset, none, built
    w_trace,       \* effects of the current handler, in order
    w_unacked,     \* the broker holds the delivery as unacknowledged
    n_units,       \* deliveries to the worker so far
    \* ---- rate-limit gate
    rl_limits,     \* len(PARSED_LIMITS)
    rl_key,        \* key_bits of the gate that the behaviour follows
    rl_now,        \* the store's clock
    rl_count,      \* value of each limit's window key, 0 when the key is absent
    rl_expiry,     \* tick at which each limit's window key expires
    rl_call,       \* the gated call of each caller: position and locals
    rl_hits,       \* weight that each limit's hits admitted at each tick
    rl_seen,       \* weight of all hits on each limit since its key was set
    n_calls,       \* gated calls of c1 and hits of the other processes so far
    \* ---- pricing engine
    px_token,      \* token_metadata['address']: WETH or another token
    px_chain,      \* what the chain holds of each whitelist entry's pair
    px_cache,      \* members of the token's cached-price zset
    px_call,       \* the call of get_token_price_in_block_range and its result
    n_price_calls, \* calls so far
    \* ---- trade volume of one work unit
    tv_logs,       \* the pair's Swap, Mint and Burn logs of the epoch, in chain order
    tv_price0,     \* what the store holds under token0's cached-price key
    tv_price1,     \* what the store holds under token1's cached-price key
    tv_pc,         \* position of the processing of the work unit
    tv_now,        \* int(time.time()) when the snapshot build started
    tv_blockts,    \* timestamp of the block details of to_block, NoTs if not fetched
    tv_i,          \* index in TradeEvents of the event type extracted next
    tv_rets,       \* rets of get_pair_contract_trades_async, by event type
    tv_snapshot,   \* the trade-volume snapshot that was built last
    tv_snaps,      \* every snapshot built for the work unit so far
    n_runs,        \* times the work unit was processed so far
    \* ---- pair metadata cache
    md_addr,       \* fields of the pair's tokens-addresses hash in the store
    md_data,       \* fields of the pair's tokens-data hash in the store
    md_call,       \* the lookup of each worker: position, locals, result
    n_lookups,     \* lookups started so far
    \* ---- reserves of one work unit
    rs_begin,      \* msg_obj.begin
    rs_end,        \* msg_obj.end
    rs_pc,         \* position of the build and of the helper it calls
    rs_block_num,  \* block_num of the loop of the build
    rs_ts,         \* max_block_timestamp: unset, wallclock, block
    rs_each_lim,   \* index in PARSED_LIMITS of the limit that is hit next
    rs_can_request,  \* can_request of the helper
    rs_charged,    \* score that the hits of the build added to each limit
    rs_not_admitted, \* some hit of the build returned False or raised
    rs_metadata,   \* pair_per_token_metadata: unset, metadata, empty
    rs_meta_calls, \* calls of get_pair_per_token_metadata for each block
    rs_attempts,   \* attempts of getReserves for each block
    rs_reserves,   \* what the last attempt for each block did
    rs_resmap,     \* blocks that have an entry in the two reserves maps
    rs_snapshot,   \* what the build returned: unset, none, built
    rs_rpush,      \* times the build pushed the unit onto the failed list
    rs_cause,      \* what made the helper raise
    \* ---- price-cache prune
    pr_zset,       \* block heights of the points of the token's price zset
    pr_before,     \* the zset when the gather was scheduled
    pr_pc,         \* position of the caller of the gather
    pr_price_block,  \* price_block
    pr_pruned,     \* the zremrangebyscore of the gather has run
    pr_get,        \* position of get_price_at_block_height_in_zset
    pr_price,      \* height of the point it returns, NoHeight for None
    \* ---- aggregation worker
    ag_pc,         \* position of _on_rabbitmq_message
    ag_msg,        \* routing key and body of the delivery
    ag_parsed,     \* the body of the delivery was parsed
    ag_scheduled,  \* a processor task was created for the delivery
    ag_acked,      \* the delivery was acknowledged
    n_agg_msgs,    \* deliveries so far
    ag_task,       \* the processor task of each delivery
    ag_running,    \* tasks that have an entry in _running_callback_tasks
    ag_scripts,    \* _rate_limiting_lua_scripts is set
    ag_log,        \* entries added to the broadcast processing log
    \* ---- threading semaphore
    sm_permits,    \* initial value of the BoundedSemaphore
    sm_value,      \* value of the semaphore
    sm_pc,         \* position of each call of the wrapper
    sm_outcome     \* what fn did in each call: returned, raised

dvars == <<d_pc, d_rk, d_body, d_idx, d_trace, d_unacked, d_requeued,
           n_inbound, bus_out>>
svars == <<progress_log, failed_q>>
wvars == <<w_pc, w_body, w_block, w_reserves, w_resmap, w_ts, w_trade, w_trace,
           w_unacked, n_units>>
rlvars == <<rl_limits, rl_key, rl_now, rl_count, rl_expiry, rl_call, rl_hits, rl_seen,
           n_calls>>
pxvars == <<px_token, px_chain, px_cache, px_call, n_price_calls>>
tvvars == <<tv_logs, tv_price0, tv_price1, tv_pc, tv_now, tv_blockts, tv_i, tv_rets,
           tv_snapshot, tv_snaps, n_runs>>
mdvars == <<md_addr, md_data, md_call, n_lookups>>
rsvars == <<rs_begin, rs_end, rs_pc, rs_block_num, rs_ts, rs_each_lim, rs_can_request,
            rs_charged, rs_not_admitted, rs_metadata, rs_meta_calls, rs_attempts,
            rs_reserves, rs_resmap, rs_snapshot, rs_rpush, rs_cause>>
prvars == <<pr_zset, pr_before, pr_pc, pr_price_block, pr_pruned, pr_get, pr_price>>
agvars == <<ag_pc, ag_msg, ag_parsed, ag_scheduled, ag_acked, n_agg_msgs, ag_task,
            ag_running, ag_scripts, ag_log>>
smvars == <<sm_permits, sm_value, sm_pc, sm_outcome>>
zvars == <<rsvars, prvars, agvars, smvars>>
yvars == <<tvvars, mdvars, zvars>>
xvars == <<rlvars, pxvars, yvars>>
vars == <<proc, dvars, svars, wvars, xvars>>

(* ----------------------------- distributor ----------------------------- *)
DEv(op, body, key) == [op |-> op, body |-> body, key |-> key]

\* lines 420-421: the routing-key filter.  split('.')[1] of a key without a
\* dot raises IndexError.
FilterOutcome(rk) ==
    IF ~KeyContainsTag(rk) THEN "drop"
    ELSE IF Len(rk) < 2 THEN "IndexError"
    ELSE IF rk[2] # ProjectTag THEN "drop"
    ELSE "pass"

\* faulty variant: the contract is published as it was spelled in the broadcast
ProcessUnit_NoLower(msg, contract) ==
    WorkUnit(msg.broadcast_id, msg.begin, msg.end, contract)

\* lines 433-438: the process unit of one entry of contracts
ProcessUnit(msg, contract) ==
    WorkUnit(msg.broadcast_id, msg.begin, msg.end, Lower(contract))

\* line 431: the for loop over msg_obj.contracts is exhausted
AllPublished(idx, contracts) == idx > Len(contracts)

\* lines 451-461
PublishUpdateLog(msg) ==
    [worker |-> "distributor", action |-> "RabbitMQ.Publish",
     status |-> "none", msg |-> msg, detail |-> "none"]

\* the broker hands a message to on_message_callback
D_Deliver ==
    /\ proc = "distributor"
    /\ d_pc = "idle"
    /\ n_inbound < MaxInbound
    /\ \E rk \in RoutingKeys, body \in BroadcastEpochs(n_inbound + 1) \cup {GarbageBody} :
          /\ d_rk' = rk
          /\ d_body' = body
    /\ d_pc' = "received"
    /\ d_idx' = 1
    /\ d_trace' = <<>>
    /\ d_unacked' = TRUE
    /\ n_inbound' = n_inbound + 1
    /\ UNCHANGED <<proc, d_requeued, bus_out, svars, wvars, xvars>>

\* line 417
D_Ack ==
    /\ proc = "distributor"
    /\ d_pc = "received"
    /\ d_unacked' = FALSE
    /\ d_trace' = Append(d_trace, DEv("ack", NoBody, 0))
    /\ d_pc' = "validating"
    /\ UNCHANGED <<proc, d_rk, d_body, d_idx, d_requeued, n_inbound, bus_out, svars, wvars, xvars>>

\* lines 420-430
ValidateOutcome(rk, body) ==
    IF FilterOutcome(rk) # "pass" THEN FilterOutcome(rk)
    ELSE IF ParsesAsEpoch(body) THEN "pass" ELSE "drop"

D_Validate ==
    /\ proc = "distributor"
    /\ d_pc = "validating"
    /\ d_pc' = CASE ValidateOutcome(d_rk, d_body) = "pass" -> "publishing"
                 [] ValidateOutcome(d_rk, d_body) = "drop" -> "idle"
                 [] OTHER -> "raised"
    /\ UNCHANGED <<proc, d_rk, d_body, d_idx, d_trace, d_unacked, d_requeued,
                   n_inbound, bus_out, svars, wvars, xvars>>

\* lines 431-450, one iteration; basic_publish returns
D_Publish ==
    /\ proc = "distributor"
    /\ d_pc = "publishing"
    /\ ~AllPublished(d_idx, d_body.contracts)
    /\ LET unit == ProcessUnit(d_body, d_body.contracts[d_idx])
       IN /\ bus_out' = Append(bus_out, unit)
          /\ d_trace' = Append(d_trace, DEv("publish", unit, 0))
    /\ d_idx' = d_idx + 1
    /\ UNCHANGED <<proc, d_pc, d_rk, d_body, d_unacked, d_requeued, n_inbound, svars,
                   wvars, xvars>>

\* lines 439-449; basic_publish raises (the connection or channel is gone)
D_PublishRaises ==
    /\ proc = "distributor"
    /\ d_pc = "publishing"
    /\ ~AllPublished(d_idx, d_body.contracts)
    /\ d_pc' = "raised"
    /\ UNCHANGED <<proc, d_rk, d_body, d_idx, d_trace, d_unacked, d_requeued,
                   n_inbound, bus_out, svars, wvars, xvars>>

\* lines 451-466; zadd returns
D_Log ==
    /\ proc = "distributor"
    /\ d_pc = "publishing"
    /\ AllPublished(d_idx, d_body.contracts)
    /\ progress_log' = [progress_log EXCEPT ![d_body.broadcast_id] =
                            @ \cup {PublishUpdateLog(d_body)}]
    /\ d_trace' = Append(d_trace, DEv("zadd", d_body, d_body.broadcast_id))
    /\ d_pc' = "idle"
    /\ UNCHANGED <<proc, d_rk, d_body, d_idx, d_unacked, d_requeued, n_inbound,
                   bus_out, failed_q, wvars, xvars>>

\* lines 462-466; the store raises
D_LogRaises ==
    /\ proc = "distributor"
    /\ d_pc = "publishing"
    /\ AllPublished(d_idx, d_body.contracts)
    /\ d_pc' = "raised"
    /\ UNCHANGED <<proc, d_rk, d_body, d_idx, d_trace, d_unacked, d_requeued,
                   n_inbound, bus_out, svars, wvars, xvars>>

\* lines 485-496: an exception of the callback leaves start_consuming; run
\* logs it and closes the channel, and the broker requeues what the channel
\* had not acknowledged.
D_Stop ==
    /\ proc = "distributor"
    /\ d_pc = "raised"
    /\ d_pc' = "stopped"
    /\ d_requeued' = d_unacked
    /\ UNCHANGED <<proc, d_rk, d_body, d_idx, d_trace, d_unacked, n_inbound,
                   bus_out, svars, wvars, xvars>>

DistStep ==
    \/ D_Ack \/ D_Validate \/ D_Publish \/ D_PublishRaises
    \/ D_Log \/ D_LogRaises \/ D_Stop

(* ------------------------------- worker -------------------------------- *)
NoEntry == [worker |-> "none", action |-> "none", status |-> "none",
            msg |-> NoBody, detail |-> "none"]

\* key is the broadcast id of a zadd and the block of a getReserves
WEv(op, stream, contract, reply, key, entry) ==
    [op |-> op, stream |-> stream, contract |-> contract, reply |-> reply,
     key |-> key, entry |-> entry]

\* lines 175-184, 192-202, 290-299, 307-317: the SnapshotBuild update_log
BuildUpdateLog(stream, msg, built) ==
    [worker |-> "processor",
     action |-> IF stream = "reserves" THEN "PairReserves.SnapshotBuild"
                ELSE "TradeVolume.SnapshotBuild",
     status |-> IF built THEN "Success" ELSE "Failed",
     msg |-> msg,
     detail |-> IF built THEN "snapshot" ELSE "none"]

\* faulty variant: the reply is not inspected for a top-level message
CommitUpdateLog_IgnoresMessage(stream, msg, reply) ==
    [worker |-> "processor",
     action |-> IF stream = "reserves" THEN "PairReserves.SnapshotCommit"
                ELSE "TradeVolume.SnapshotCommit",
     status |-> IF reply = "exception" THEN "Failed" ELSE "Success",
     msg |-> msg,
     detail |-> IF reply = "exception" THEN "exception" ELSE "response"]

\* lines 226-236, 247-257, 266-276 and 341-351, 362-372, 381-391: the
\* SnapshotCommit update_log.  detail names what info carries beside msg and
\* status: the exception object, the response under 'error', or the response.
CommitUpdateLog(stream, msg, reply) ==
    [worker |-> "processor",
     action |-> IF stream = "reserves" THEN "PairReserves.SnapshotCommit"
                ELSE "TradeVolume.SnapshotCommit",
     status |-> IF reply = "ok" THEN "Success" ELSE "Failed",
     msg |-> msg,
     detail |-> CASE reply = "exception" -> "exception"
                  [] reply = "reject" -> "error"
                  [] OTHER -> "response"]

\* json.dumps(update_log): an exception object is no JSON value, so dumps
\* raises TypeError; dicts, strings and numbers serialise.
JsonSerializable(update_log) == update_log.detail # "exception"

\* faulty variant: the trade-volume stream is handled first
Flow_TradeFirst(pc, outcome) ==
    CASE pc = "parse" /\ outcome = "ok" -> "trade_query"
      [] pc = "parse" /\ outcome = "invalid" -> "returned"
      [] pc = "trade_query" -> "trade_log"
      [] pc = "trade_log" /\ outcome = "none" -> "reserves_query"
      [] pc = "trade_log" /\ outcome = "built" -> "trade_diff"
      [] pc = "trade_diff" /\ outcome = "ok" -> "trade_commit"
      [] pc = "trade_commit" /\ outcome = "logged" -> "reserves_query"
      [] pc = "reserves_query" -> "reserves_log"
      [] pc = "reserves_log" /\ outcome = "none" -> "returned"
      [] pc = "reserves_log" /\ outcome = "built" -> "reserves_diff"
      [] pc = "reserves_diff" /\ outcome = "ok" -> "reserves_commit"
      [] pc = "reserves_commit" /\ outcome = "logged" -> "returned"
      [] OTHER -> "raised"

\* The order of the handler's stages, lines 150-397: what follows position pc
\* on outcome.
Flow(pc, outcome) ==
    CASE pc = "parse" /\ outcome = "ok" -> "reserves_query"
      [] pc = "parse" /\ outcome = "invalid" -> "returned"
      [] pc = "reserves_query" -> "reserves_log"
      [] pc = "reserves_log" /\ outcome = "none" -> "trade_query"
      [] pc = "reserves_log" /\ outcome = "built" -> "reserves_diff"
      [] pc = "reserves_diff" /\ outcome = "ok" -> "reserves_commit"
      [] pc = "reserves_commit" /\ outcome = "logged" -> "trade_query"
      [] pc = "trade_query" -> "trade_log"
      [] pc = "trade_log" /\ outcome = "none" -> "returned"
      [] pc = "trade_log" /\ outcome = "built" -> "trade_diff"
      [] pc = "trade_diff" /\ outcome = "ok" -> "trade_commit"
      [] pc = "trade_commit" /\ outcome = "logged" -> "returned"
      [] OTHER -> "raised"

WIdle == w_pc \in {"idle", "returned", "raised"}

\* zadd(key=...format(broadcast_id), member=json.dumps(update_log))
Zadd(log, bid, entry) == [log EXCEPT ![bid] = @ \cup {entry}]

\* rpush(failed_pair_total_reserves_epochs:<contract>, msg_obj.json())
Rpush(q, msg) == [q EXCEPT ![msg.contract] = Append(@, msg)]

\* the broker hands a message to the consumer
W_Deliver ==
    /\ proc = "worker"
    /\ WIdle
    /\ n_units < MaxUnits
    /\ \E body \in WorkUnits \cup {GarbageBody} : w_body' = body
    /\ w_pc' = "received"
    /\ w_block' = 0
    /\ w_reserves' = "unset"
    /\ w_resmap' = {}
    /\ w_ts' = "unset"
    /\ w_trade' = "unset"
    /\ w_trace' = <<>>
    /\ w_unacked' = TRUE
    /\ n_units' = n_units + 1
    /\ UNCHANGED <<proc, dvars, xvars, svars>>

\* faulty variant: the handler goes on to parse without acknowledging
W_Ack_NotFirst ==
    /\ proc = "worker"
    /\ w_pc = "received"
    /\ w_pc' = "parse"
    /\ UNCHANGED <<proc, dvars, xvars, svars, w_body, w_block, w_reserves, w_resmap, w_ts,
                   w_trade, w_trace, w_unacked, n_units>>

\* line 151
W_Ack ==
    /\ proc = "worker"
    /\ w_pc = "received"
    /\ w_unacked' = FALSE
    /\ w_trace' = Append(w_trace, WEv("ack", "none", NoAddr, "none", 0, NoEntry))
    /\ w_pc' = "parse"
    /\ UNCHANGED <<proc, dvars, xvars, svars, w_body, w_block, w_reserves, w_resmap, w_ts,
                   w_trade, n_units>>

\* lines 152-165; a parsed unit enters the reserves build, whose first
\* statements (lines 40-45) set the loop's start and the fallback timestamp
W_Parse ==
    /\ proc = "worker"
    /\ w_pc = "parse"
    /\ w_pc' = Flow("parse", IF ParsesAsWorkUnit(w_body) THEN "ok" ELSE "invalid")
    /\ w_block' = w_body.begin
    /\ w_ts' = IF ParsesAsWorkUnit(w_body) THEN "wallclock" ELSE w_ts
    /\ UNCHANGED <<proc, dvars, xvars, svars, w_body, w_reserves, w_resmap,
                   w_trade, w_trace, w_unacked, n_units>>

\* faulty variant: range(min_chain_height, max_chain_height)
LastBlock_ExcludesEnd(block, msg) == block + 1 >= msg.end

\* line 46: block_num is the last of range(min_chain_height, max_chain_height+1)
LastBlock(block, msg) == block = msg.end

\* faulty variant: the timestamp of the block is taken although none came
MaxBlockTimestamp_IgnoresFailure(ts, fetch) ==
    IF fetch = "none" THEN ts ELSE "block"

\* lines 62-68: max_block_timestamp after the query of a block.  fetch is
\* what w3.eth.get_block did: "none" when fetch_ts is False, "exception" when
\* it raised (uniswap_functions.py lines 640-645 turn that into timestamp
\* None), "ok" when it returned the header.
MaxBlockTimestamp(ts, fetch) ==
    IF fetch = "ok" THEN "block" ELSE ts

\* lines 46-68: the reserves query of block_num returns.  (The call of lines
\* 49-54 passes no redis_conn, and uniswap_functions.py line 587 declares it
\* without a default: against that definition every call raises TypeError,
\* which is the outcome of W_ReservesQueryFails.  This action is the outcome
\* against a definition that accepts the call.)
W_ReservesQuery ==
    /\ proc = "worker"
    /\ w_pc = "reserves_query"
    /\ \E fetch \in IF LastBlock(w_block, w_body) THEN {"ok", "exception"}
                    ELSE {"none"} :
          /\ w_trace' = w_trace \o
                (IF fetch = "none" THEN <<>>
                 ELSE <<WEv("get_block", "reserves", w_body.contract, fetch,
                            w_block, NoEntry)>>) \o
                <<WEv("getReserves", "reserves", w_body.contract, "ok",
                      w_block, NoEntry)>>
          /\ w_ts' = MaxBlockTimestamp(w_ts, fetch)
    /\ w_resmap' = w_resmap \cup {w_block}
    /\ IF LastBlock(w_block, w_body)
       THEN /\ w_reserves' = "built"
            /\ w_pc' = Flow("reserves_query", "built")
            /\ UNCHANGED w_block
       ELSE /\ w_block' = w_block + 1
            /\ UNCHANGED <<w_reserves, w_pc>>
    /\ UNCHANGED <<proc, dvars, xvars, svars, w_body, w_trade, w_unacked, n_units>>

\* faulty variant: enqueue_on_failure is left at its default, False
W_ReservesQueryFails_NoEnqueue ==
    /\ proc = "worker"
    /\ w_pc = "reserves_query"
    /\ w_trace' = Append(w_trace,
          WEv("getReserves", "reserves", w_body.contract, "exception", w_block, NoEntry))
    /\ w_reserves' = "none"
    /\ w_pc' = Flow("reserves_query", "failed")
    /\ UNCHANGED <<proc, dvars, xvars, svars, w_body, w_block, w_resmap, w_ts, w_trade,
                   w_unacked, n_units>>

\* lines 55-58 and 69-76: the reserves query of block_num raises; the unit
\* goes onto the failed-epochs list and the build returns None
W_ReservesQueryFails ==
    /\ proc = "worker"
    /\ w_pc = "reserves_query"
    /\ failed_q' = Rpush(failed_q, w_body)
    /\ w_trace' = w_trace \o
          <<WEv("getReserves", "reserves", w_body.contract, "exception", w_block, NoEntry),
            WEv("rpush", "reserves", w_body.contract, "none", 0, NoEntry)>>
    /\ w_reserves' = "none"
    /\ w_pc' = Flow("reserves_query", "failed")
    /\ UNCHANGED <<proc, dvars, xvars, progress_log, w_body, w_block, w_resmap, w_ts, w_trade,
                   w_unacked, n_units>>

\* lines 173-208 and 288-323: the SnapshotBuild entry of a stream
BuildLogged(stream, snapshot) ==
    LET entry == BuildUpdateLog(stream, w_body, snapshot = "built")
    IN /\ progress_log' = Zadd(progress_log, w_body.broadcast_id, entry)
       /\ w_trace' = Append(w_trace,
              WEv("zadd", stream, w_body.contract, "none", w_body.broadcast_id, entry))
       /\ w_pc' = Flow(w_pc, snapshot)

W_ReservesBuildLog ==
    /\ proc = "worker"
    /\ w_pc = "reserves_log"
    /\ BuildLogged("reserves", w_reserves)
    /\ UNCHANGED <<proc, dvars, xvars, failed_q, w_body, w_block, w_reserves, w_resmap, w_ts,
                   w_trade, w_unacked, n_units>>

\* faulty variant: an exception of set_diff_rule is caught and the commit
\* goes ahead
SetDiffRule_ExceptionCaught(stream, contract) ==
    \E reply \in {"ok", "exception"} :
       /\ w_trace' = Append(w_trace,
              WEv("set_diff_rule", stream, contract, reply, 0, NoEntry))
       /\ w_pc' = Flow(w_pc, "ok")

\* lines 210-214 and 325-329: set_diff_rule returns or raises
SetDiffRule(stream, contract) ==
    \E reply \in {"ok", "exception"} :
       /\ w_trace' = Append(w_trace,
              WEv("set_diff_rule", stream, contract, reply, 0, NoEntry))
       /\ w_pc' = Flow(w_pc, reply)

W_ReservesSetDiffRule ==
    /\ proc = "worker"
    /\ w_pc = "reserves_diff"
    /\ SetDiffRule("reserves", w_body.contract)
    /\ UNCHANGED <<proc, dvars, xvars, svars, w_body, w_block, w_reserves, w_resmap, w_ts,
                   w_trade, w_unacked, n_units>>

\* lines 216-282 and 331-397: after the reply of commit_payload (or the
\* exception caught in its place) the update_log is serialised and added to
\* the broadcast's log; a TypeError of json.dumps leaves the handler.
CommitLogged(stream, reply, calls) ==
    LET entry == CommitUpdateLog(stream, w_body, reply)
    IN IF JsonSerializable(entry)
       THEN /\ progress_log' = Zadd(progress_log, w_body.broadcast_id, entry)
            /\ w_trace' = w_trace \o calls \o
                  <<WEv("zadd", stream, w_body.contract, "none",
                        w_body.broadcast_id, entry)>>
            /\ w_pc' = Flow(w_pc, "logged")
       ELSE /\ UNCHANGED progress_log
            /\ w_trace' = w_trace \o calls
            /\ w_pc' = Flow(w_pc, "TypeError")

CommitReplies == {"ok", "reject", "exception"}

\* lines 215-282
W_ReservesCommit ==
    /\ proc = "worker"
    /\ w_pc = "reserves_commit"
    /\ \E reply \in CommitReplies :
          CommitLogged("reserves", reply,
              <<WEv("commit_payload", "reserves", w_body.contract, reply, 0, NoEntry)>>)
    /\ UNCHANGED <<proc, dvars, xvars, failed_q, w_body, w_block, w_reserves, w_resmap, w_ts,
                   w_trade, w_unacked, n_units>>

\* lines 91-141: the trade query returns and the snapshot is built
W_TradeQuery ==
    /\ proc = "worker"
    /\ w_pc = "trade_query"
    /\ w_trace' = Append(w_trace,
            WEv("getTrades", "trade", w_body.contract, "ok", 0, NoEntry))
    /\ w_trade' = "built"
    /\ w_pc' = Flow("trade_query", "built")
    /\ UNCHANGED <<proc, dvars, xvars, svars, w_body, w_block, w_reserves, w_resmap, w_ts,
                   w_unacked, n_units>>

\* faulty variant: enqueue_on_failure is left at its default, False
W_TradeQueryFails_NoEnqueue ==
    /\ proc = "worker"
    /\ w_pc = "trade_query"
    /\ w_trace' = Append(w_trace,
          WEv("getTrades", "trade", w_body.contract, "exception", 0, NoEntry))
    /\ w_trade' = "none"
    /\ w_pc' = Flow("trade_query", "failed")
    /\ UNCHANGED <<proc, dvars, xvars, svars, w_body, w_block, w_reserves, w_resmap, w_ts,
                   w_unacked, n_units>>

\* lines 98-106: the trade query raises
W_TradeQueryFails ==
    /\ proc = "worker"
    /\ w_pc = "trade_query"
    /\ failed_q' = Rpush(failed_q, w_body)
    /\ w_trace' = w_trace \o
          <<WEv("getTrades", "trade", w_body.contract, "exception", 0, NoEntry),
            WEv("rpush", "trade", w_body.contract, "none", 0, NoEntry)>>
    /\ w_trade' = "none"
    /\ w_pc' = Flow("trade_query", "failed")
    /\ UNCHANGED <<proc, dvars, xvars, progress_log, w_body, w_block, w_reserves, w_resmap, w_ts,
                   w_unacked, n_units>>

W_TradeBuildLog ==
    /\ proc = "worker"
    /\ w_pc = "trade_log"
    /\ BuildLogged("trade", w_trade)
    /\ UNCHANGED <<proc, dvars, xvars, failed_q, w_body, w_block, w_reserves, w_resmap, w_ts,
                   w_trade, w_unacked, n_units>>

W_TradeSetDiffRule ==
    /\ proc = "worker"
    /\ w_pc = "trade_diff"
    /\ SetDiffRule("trade", w_body.contract)
    /\ UNCHANGED <<proc, dvars, xvars, svars, w_body, w_block, w_reserves, w_resmap, w_ts,
                   w_trade, w_unacked, n_units>>

\* lines 330-397.  The address handed to commit_payload is
\* pair_total_reserves_epoch_snapshot.contract (line 333): when the reserves
\* build returned None, reading it raises AttributeError inside the try, so
\* commit_payload is not called and the except branch runs.
W_TradeCommit ==
    /\ proc = "worker"
    /\ w_pc = "trade_commit"
    /\ IF w_reserves = "none"
       THEN CommitLogged("trade", "exception", <<>>)
       ELSE \E reply \in CommitReplies :
               CommitLogged("trade", reply,
                   <<WEv("commit_payload", "trade", w_body.contract, reply, 0, NoEntry)>>)
    /\ UNCHANGED <<proc, dvars, xvars, failed_q, w_body, w_block, w_reserves, w_resmap, w_ts,
                   w_trade, w_unacked, n_units>>

WorkerStep ==
    \/ W_Ack \/ W_Parse
    \/ W_ReservesQuery \/ W_ReservesQueryFails \/ W_ReservesBuildLog
    \/ W_ReservesSetDiffRule \/ W_ReservesCommit
    \/ W_TradeQuery \/ W_TradeQueryFails \/ W_TradeBuildLog
    \/ W_TradeSetDiffRule \/ W_TradeCommit

(* --------------------------- rate-limit gate --------------------------- *)
\* uniswap_functions.py: the admission loop of
\* get_liquidity_of_each_token_reserve_async (lines 603-639, 696-697) and of
\* get_pair_contract_trades_async (lines 723-755).  The behaviour follows the
\* gated calls of one worker process, c1; the other worker processes run the
\* same loop against the same store, and what the store sees of them is
\* their hits (RL_OtherHit).
Callers == {"c1"}

\* PARSED_LIMITS (lines 43-44), in configured order: limit l admits
\* Capacity(l) per window of Period(l) ticks.  RPC.rate_limit names one
\* limit ("3 per 2 ticks") or two ("3 per 2 ticks; 4 per 3 ticks").
AllLimits == {1, 2}
LimitCounts == {1, 2}
Limits == 1..rl_limits
Capacity(l) == l + 2
Period(l) == l + 1

\* key_bits (lines 607, 726): the gate of getReserves and the gate of the log
\* queries count under keys of their own.  limit_incr_by is 1 for
\* getReserves and 2 with fetch_timestamp (lines 602-604), 3 for the log
\* queries (line 723).
KeyBits == {"eth_call", "eth_logs"}
Weights == IF rl_key = "eth_call" THEN {1, 2} ELSE {3}

NoCall == [pc |-> "idle", idx |-> 1, w |-> 0, can |-> FALSE,
           denied |-> FALSE, err |-> FALSE]

\* faulty variant: the script counts requests, not their weight
IncrBy_IgnoresWeight(count, w) == count + 1

\* SCRIPT_INCR_EXPIRE (lines 58-65): incrby, and expire when the key is new
IncrBy(count, w) == count + w
ExpireSet(count, w) == IncrBy(count, w) = w

\* AsyncFixedWindowRateLimiter.hit: the counter after the increment is
\* compared with the limit's amount
HitAdmits(l, w) == IncrBy(rl_count[l], w) <= Capacity(l)

\* the store runs the script: one atomic step
StoreHit(l, w) ==
    /\ rl_count' = [rl_count EXCEPT ![l] = IncrBy(@, w)]
    /\ rl_expiry' = [rl_expiry EXCEPT
                        ![l] = IF ExpireSet(rl_count[l], w) THEN rl_now + Period(l)
                               ELSE @]
    /\ rl_hits' = [rl_hits EXCEPT
                      ![l][rl_now] = @ + IF HitAdmits(l, w) THEN w ELSE 0]
    /\ rl_seen' = [rl_seen EXCEPT ![l] = @ + w]

RLRest(c) == rl_call[c].pc \in {"idle", "issued", "raised"}
RLChecking(c) ==
    /\ proc = "limiter"
    /\ rl_call[c].pc = "checking"
    /\ rl_call[c].idx \in Limits

\* for each_lim in PARSED_LIMITS: where the loop stands after limit idx
AfterLimit(idx) == IF idx + 1 \in Limits THEN "checking" ELSE "checked"

\* a worker enters the gate (lines 603-611, 723-730): can_request = False
RL_Call(c) ==
    /\ proc = "limiter"
    /\ RLRest(c)
    /\ n_calls < MaxCalls
    /\ \E w \in Weights :
          rl_call' = [rl_call EXCEPT ![c] =
                         [NoCall EXCEPT !.pc = "checking", !.w = w]]
    /\ n_calls' = n_calls + 1
    /\ UNCHANGED <<proc, dvars, svars, wvars, pxvars, yvars, rl_limits, rl_key, rl_now, rl_count,
                   rl_expiry, rl_hits, rl_seen>>

\* lines 618 and 637-638: hit returns True, the else branch of the try runs
RL_HitAdmits(c) ==
    /\ RLChecking(c)
    /\ HitAdmits(rl_call[c].idx, rl_call[c].w)
    /\ StoreHit(rl_call[c].idx, rl_call[c].w)
    /\ rl_call' = [rl_call EXCEPT ![c].can = TRUE,
                                  ![c].pc = AfterLimit(rl_call[c].idx),
                                  ![c].idx = @ + 1]
    /\ UNCHANGED <<proc, dvars, svars, wvars, pxvars, yvars, rl_limits, rl_key, rl_now, n_calls>>

\* lines 618-625: hit returns False, get_window_stats returns, break
RL_HitDenies(c) ==
    /\ RLChecking(c)
    /\ ~HitAdmits(rl_call[c].idx, rl_call[c].w)
    /\ StoreHit(rl_call[c].idx, rl_call[c].w)
    /\ rl_call' = [rl_call EXCEPT ![c].can = FALSE,
                                  ![c].denied = TRUE,
                                  ![c].pc = "checked"]
    /\ UNCHANGED <<proc, dvars, svars, wvars, pxvars, yvars, rl_limits, rl_key, rl_now, n_calls>>

\* lines 618-619 and 626-633: hit returns False and get_window_stats raises a
\* store error; the except branch logs it, and the loop goes on without break
RL_HitDeniesStatsRaises(c) ==
    /\ RLChecking(c)
    /\ ~HitAdmits(rl_call[c].idx, rl_call[c].w)
    /\ StoreHit(rl_call[c].idx, rl_call[c].w)
    /\ rl_call' = [rl_call EXCEPT ![c].denied = TRUE,
                                  ![c].err = TRUE,
                                  ![c].pc = AfterLimit(rl_call[c].idx),
                                  ![c].idx = @ + 1]
    /\ UNCHANGED <<proc, dvars, svars, wvars, pxvars, yvars, rl_limits, rl_key, rl_now, n_calls>>

\* lines 618 and 626-633: hit raises a connection, timeout or response error
\* of the store; the except branch logs it and leaves can_request as it is
RL_HitRaises(c) ==
    /\ RLChecking(c)
    /\ rl_call' = [rl_call EXCEPT ![c].err = TRUE,
                                  ![c].pc = AfterLimit(rl_call[c].idx),
                                  ![c].idx = @ + 1]
    /\ UNCHANGED <<proc, dvars, svars, wvars, pxvars, yvars, rl_limits, rl_key, rl_now, rl_count,
                   rl_expiry, rl_hits, rl_seen, n_calls>>

\* lines 639 and 696-697: the gated RPC calls are issued if can_request, else
\* the exhausted_api_key_rate_limit exception is raised at once; the call's
\* locals are gone, what the loop met is kept for the record
RL_Decide(c) ==
    /\ proc = "limiter"
    /\ rl_call[c].pc = "checked"
    /\ rl_call' = [rl_call EXCEPT
                      ![c] = [NoCall EXCEPT
                                 !.pc = IF rl_call[c].can THEN "issued" ELSE "raised",
                                 !.denied = rl_call[c].denied,
                                 !.err = rl_call[c].err]]
    /\ UNCHANGED <<proc, dvars, svars, wvars, pxvars, yvars, rl_limits, rl_key, rl_now, rl_count,
                   rl_expiry, rl_hits, rl_seen, n_calls>>

\* line 618 in another worker process: its hit on one of the limits
RL_OtherHit ==
    /\ proc = "limiter"
    /\ n_calls < MaxCalls
    /\ \E l \in Limits, w \in Weights : StoreHit(l, w)
    /\ n_calls' = n_calls + 1
    /\ UNCHANGED <<proc, dvars, svars, wvars, pxvars, yvars, rl_limits, rl_key, rl_now, rl_call>>

\* the store's clock advances; a key whose expiry is reached is deleted
RL_Tick ==
    /\ proc = "limiter"
    /\ rl_now < MaxTime
    /\ rl_now' = rl_now + 1
    /\ rl_count' = [l \in AllLimits |->
                       IF rl_expiry[l] <= rl_now + 1 THEN 0 ELSE rl_count[l]]
    /\ rl_seen' = [l \in AllLimits |->
                      IF rl_expiry[l] <= rl_now + 1 THEN 0 ELSE rl_seen[l]]
    /\ UNCHANGED <<proc, dvars, svars, wvars, pxvars, yvars, rl_limits, rl_key, rl_expiry, rl_call,
                   rl_hits, n_calls>>

LimiterStep ==
    \E c \in Callers :
        \/ RL_Call(c) \/ RL_HitAdmits(c) \/ RL_HitDenies(c)
        \/ RL_HitDeniesStatsRaises(c) \/ RL_HitRaises(c) \/ RL_Decide(c)

(* ----------------------------- pricing engine -------------------------- *)
\* pooler/callback_modules/uniswap/pricing.py, get_token_price_in_block_range
\* (lines 169-337), for one token against the shared price cache.
Heights == 1..MaxHeight
Ranges == {r \in Heights \X Heights : r[1] <= r[2]}

\* worker_settings.uniswap_v2_whitelist, in declared order
Whitelist == <<"w1", "w2">>

\* What the chain holds of a whitelist entry: whether the factory has a pair
\* of the entry and the token, the pair's reserve of the entry at each block
\* and the pair's reserve of the token (both in whole tokens, after the
\* division by 10 ** decimals of lines 73-78).  The first entry takes every
\* series of 0 and 1 against a token side of 0 or 1; the second is absent,
\* dry at every block or deep at every block.
NoPair == [pair |-> FALSE, reserve |-> [b \in Heights |-> 0], token |-> 0]
FirstEntryStates ==
    {NoPair} \cup {[pair |-> TRUE, reserve |-> r, token |-> t] :
                      r \in [Heights -> {0, 1}], t \in {0, 1}}
SecondEntryStates ==
    {NoPair} \cup {[pair |-> TRUE, reserve |-> [b \in Heights |-> v], token |-> 1] :
                      v \in {0, 1}}
Chains == {<<a, b>> : a \in FirstEntryStates, b \in SecondEntryStates}

\* lines 86-88: whether the whitelist entry is token0 of its pair; the first
\* entry is, the second is token1
WhiteIsToken0(k) == k = 1

\* lines 44-50, 73-78: (reserve of token0, reserve of token1) of the pair of
\* entry k at block b
PairReserves(chain, k, b) ==
    IF WhiteIsToken0(k) THEN <<chain[k].reserve[b], chain[k].token>>
    ELSE <<chain[k].token, chain[k].reserve[b]>>

\* faulty variant: only the reserve of token0 is tested
EitherReserveZero_Token0Only(r) == r[1] = 0

\* lines 80-82: float(pair_reserve_token0) == float(0) or
\* float(pair_reserve_token1) == float(0)
EitherReserveZero(r) == r[1] = 0 \/ r[2] = 0

\* lines 89-91, 94-96: a / b; raised says that b is 0 (ZeroDivisionError)
Quotient(a, b) ==
    [value |-> IF b = 0 THEN 0 ELSE a \div b, divided |-> TRUE, raised |-> b = 0]

\* lines 71-97 of get_token_pair_price_and_white_token_reserves: the price of
\* the token in the whitelist entry and the entry's reserve for one block
PairPriceAndWhiteReserves(r, white0) ==
    IF EitherReserveZero(r)
    THEN [price |-> 0, reserve |-> 0, divided |-> FALSE, raised |-> FALSE]
    ELSE LET q == IF white0 THEN Quotient(r[1], r[2]) ELSE Quotient(r[2], r[1])
         IN [price |-> q.value, reserve |-> IF white0 THEN r[1] ELSE r[2],
             divided |-> q.divided, raised |-> q.raised]

\* what the function returns for entry k at block b
EntryAt(chain, k, b) ==
    PairPriceAndWhiteReserves(PairReserves(chain, k, b), WhiteIsToken0(k))

\* lines 104-166, get_token_derived_eth: the whitelist entry in ETH; the
\* first entry is WETH (lines 112-119), the second is quoted at 2 ETH
DerivedEth(k, b) == k

\* lines 256-258: white_token_reserves of entry k at block b, in ETH
ReserveInEth(chain, k, b) == EntryAt(chain, k, b).reserve * DerivedEth(k, b)

\* faulty variant: a reserve of exactly 1 ETH counts as too little
LessThanMinimumLiquidity_Inclusive(r) == r <= 1

\* line 261: if white_token_reserves < 1
LessThanMinimumLiquidity(r) == r < 1

\* lines 266-272: price of the token in ETH through entry k at block b
\* (white_token_price * white_token_derived_eth)
TokenInEth(chain, k, b) == EntryAt(chain, k, b).price * DerivedEth(k, b)

\* get_eth_price_usd: the ETH price in USD over a block range
EthUsd(b) == 2

EmptyDict == [x \in {} |-> 0]
Put(dict, key, v) ==
    [x \in DOMAIN dict \cup {key} |-> IF x = key THEN v ELSE dict[x]]
Get(dict, key, default) == IF key \in DOMAIN dict THEN dict[key] ELSE default

\* lines 254-272: the loop over the blocks for one entry, into
\* token_eth_price_dict; less is less_than_minimum_liquidity
RECURSIVE FillBlocks(_, _, _, _, _)
FillBlocks(chain, k, b, to, dict) ==
    IF b > to THEN [dict |-> dict, less |-> FALSE]
    ELSE IF LessThanMinimumLiquidity(ReserveInEth(chain, k, b))
         THEN [dict |-> dict, less |-> TRUE]
         ELSE FillBlocks(chain, k, b + 1, to, Put(dict, b, TokenInEth(chain, k, b)))

\* faulty variant: the blocks filled before the dry block are kept
AbandonEntry_KeepsPartial(dict) == dict

\* lines 275-277: token_eth_price_dict = {} before the next entry is tried
AbandonEntry(dict) == EmptyDict

\* lines 215-279: the loop over the whitelist from entry i on.  consulted
\* lists the entries whose reserves were fetched, used is the entry the loop
\* broke on (0: none), raised says that the price function of lines 236-246
\* raised for an entry.
RECURSIVE WhitelistLoop(_, _, _, _, _, _)
WhitelistLoop(chain, i, from, to, dict, consulted) ==
    IF i > Len(Whitelist)
    THEN [dict |-> dict, consulted |-> consulted, used |-> 0, raised |-> FALSE]
    ELSE IF ~chain[i].pair
         THEN WhitelistLoop(chain, i + 1, from, to, dict, consulted)
         ELSE IF \E b \in from..to : EntryAt(chain, i, b).raised
              THEN [dict |-> dict, consulted |-> Append(consulted, i),
                    used |-> 0, raised |-> TRUE]
              ELSE LET r == FillBlocks(chain, i, from, to, dict)
                   IN IF r.less
                      THEN WhitelistLoop(chain, i + 1, from, to,
                                         AbandonEntry(r.dict), Append(consulted, i))
                      ELSE [dict |-> r.dict, consulted |-> Append(consulted, i),
                            used |-> i, raised |-> FALSE]

\* lines 204-302: the price map that is computed, and what was used for it
ComputePrice(token, chain, from, to) ==
    IF token = "WETH"
    THEN [price |-> [b \in from..to |-> EthUsd(b)], eth |-> EmptyDict,
          consulted |-> <<>>, used |-> 0, ethusd |-> TRUE, raised |-> FALSE]
    ELSE LET w == WhitelistLoop(chain, 1, from, to, EmptyDict, <<>>)
         IN IF Cardinality(DOMAIN w.dict) > 0
            THEN [price |-> [b \in from..to |->
                                Get(w.dict, b, 0) * EthUsd(b)],
                  eth |-> w.dict, consulted |-> w.consulted, used |-> w.used,
                  ethusd |-> TRUE, raised |-> w.raised]
            ELSE [price |-> [b \in from..to |-> 0],
                  eth |-> w.dict, consulted |-> w.consulted, used |-> w.used,
                  ethusd |-> FALSE, raised |-> w.raised]

\* lines 184-190: zrangebyscore(min=from_block, max=to_block)
CacheRange(cache, from, to) ==
    {m \in cache : from <= m.blockHeight /\ m.blockHeight <= to}

\* lines 191-193: the test for a cached range
CacheComplete(members, from, to) ==
    members # {} /\ Cardinality(members) = to - (from - 1)

\* lines 194-203: the dict comprehension over the members.  Of two members
\* of one height the later one stays; zrangebyscore lists members of one
\* score in the order of their text, which for the prices here is the order
\* of the prices.
PriceDictOf(members) ==
    [h \in {m.blockHeight : m \in members} |->
        CHOOSE p \in {m.price : m \in {x \in members : x.blockHeight = h}} :
            \A m \in members : m.blockHeight = h => m.price <= p]

\* lines 305-323: zadd of the members {'blockHeight': height, 'price': price}
CacheWrite(cache, price) ==
    cache \cup {[blockHeight |-> h, price |-> price[h]] : h \in DOMAIN price}

NoPriceCall ==
    [pc |-> "idle", from |-> 0, to |-> 0, path |-> "none", price |-> EmptyDict,
     eth |-> EmptyDict, consulted |-> <<>>, used |-> 0, ethusd |-> FALSE,
     zeroed |-> FALSE]

\* whether the call before this one was for the same range, found no
\* qualifying entry and wrote all-zero prices to the cache (lines 292-294
\* and 306-324), or was itself a call after such a call
ZeroedBefore(last, r) ==
    /\ last.pc = "returned"
    /\ last.from = r[1]
    /\ last.to = r[2]
    /\ \/ last.path = "computed" /\ last.used = 0 /\ ~last.ethusd
       \/ last.zeroed

\* a caller asks for the prices of [from, to]
PX_Call ==
    /\ proc = "pricing"
    /\ px_call.pc \in {"idle", "returned", "raised"}
    /\ n_price_calls < MaxPriceCalls
    /\ \E r \in Ranges :
          px_call' = [NoPriceCall EXCEPT !.pc = "called", !.from = r[1], !.to = r[2],
                                         !.zeroed = ZeroedBefore(px_call, r)]
    /\ n_price_calls' = n_price_calls + 1
    /\ UNCHANGED <<proc, dvars, svars, wvars, rlvars, yvars, px_token, px_chain, px_cache>>

\* lines 178-326: the call returns, from the cache or after computing the
\* prices and adding them to the cache
PX_Return ==
    /\ proc = "pricing"
    /\ px_call.pc = "called"
    /\ LET members == CacheRange(px_cache, px_call.from, px_call.to)
           c == ComputePrice(px_token, px_chain, px_call.from, px_call.to)
       IN IF CacheComplete(members, px_call.from, px_call.to)
          THEN /\ px_call' = [px_call EXCEPT !.pc = "returned", !.path = "cache",
                                             !.price = PriceDictOf(members)]
               /\ UNCHANGED px_cache
          ELSE /\ ~c.raised
               /\ px_call' = [px_call EXCEPT !.pc = "returned", !.path = "computed",
                                             !.price = c.price, !.eth = c.eth,
                                             !.consulted = c.consulted,
                                             !.used = c.used, !.ethusd = c.ethusd]
               /\ px_cache' = IF Cardinality(DOMAIN c.price) > 0
                              THEN CacheWrite(px_cache, c.price) ELSE px_cache
    /\ UNCHANGED <<proc, dvars, svars, wvars, rlvars, yvars, px_token, px_chain,
                   n_price_calls>>

\* lines 328-337: an RPC call of the computation raises; the exception is
\* logged and raised again, nothing is cached
PX_Raises ==
    /\ proc = "pricing"
    /\ px_call.pc = "called"
    /\ ~CacheComplete(CacheRange(px_cache, px_call.from, px_call.to),
                      px_call.from, px_call.to)
    /\ px_call' = [px_call EXCEPT !.pc = "raised"]
    /\ UNCHANGED <<proc, dvars, svars, wvars, rlvars, yvars, px_token, px_chain, px_cache,
                   n_price_calls>>

PricingStep == PX_Call \/ PX_Return \/ PX_Raises

(* ------------------------------ trade volume --------------------------- *)
\* uniswap_functions.py, get_pair_contract_trades_async (lines 705-825) with
\* extract_trade_volume_data (292-419) and extract_recent_transaction_logs
\* (236-289), and the build of the trade-volume snapshot in
\* pair_total_reserves.py (lines 88-141), for one work unit that is
\* processed up to MaxRuns times against the same logs and prices.
MaxLogs == 2         \* most logs of the pair in the epoch
MaxRuns == 2         \* times the work unit is processed

\* lines 773, 795: the event types, in the order of the loops
TradeEvents == <<"Swap", "Mint", "Burn">>

\* pair_per_token_metadata[...]['decimals'] of both tokens
Decimals == 1

\* line 369: the rate 0.3 that the fee is multiplied by, in thousandths
FeeRate == 300

\* the store has no value under a price key (redis get returns None)
NoPrice == 0 - 1
Prices0 == {NoPrice, 0, 2}
Prices1 == {NoPrice, 0, 1}

\* block_details is None (lines 763, 766, 817)
NoTs == 0
\* block_details.timestamp of to_block
BlockTimestamp == 1
\* int(time.time()) of the run-th processing of the work unit
WallClock(run) == BlockTimestamp + run

\* args of a decoded log; a field the event does not have is 0
NoAmounts ==
    [amount0In |-> 0, amount1In |-> 0, amount0Out |-> 0, amount1Out |-> 0,
     amount0 |-> 0, amount1 |-> 0]
LogKinds == {"swap0in", "swap0in2", "swap1in", "swapboth", "mint", "burn"}
LogEvent(kind) ==
    IF kind = "mint" THEN "Mint" ELSE IF kind = "burn" THEN "Burn" ELSE "Swap"
LogArgs(kind) ==
    CASE kind = "swap0in"  -> [NoAmounts EXCEPT !.amount0In = 10, !.amount1Out = 20]
      [] kind = "swap0in2" -> [NoAmounts EXCEPT !.amount0In = 20, !.amount1Out = 40]
      [] kind = "swap1in"  -> [NoAmounts EXCEPT !.amount1In = 20, !.amount0Out = 10]
      [] kind = "swapboth" -> [NoAmounts EXCEPT !.amount0In = 10, !.amount1In = 20,
                                                !.amount0Out = 10, !.amount1Out = 20]
      [] kind = "mint"     -> [NoAmounts EXCEPT !.amount0 = 10, !.amount1 = 20]
      [] kind = "burn"     -> [NoAmounts EXCEPT !.amount0 = 10, !.amount1 = 20]

\* the i-th log of the epoch: two logs to a block, logIndex in chain order
LogOf(kind, i) ==
    [event |-> LogEvent(kind), args |-> LogArgs(kind),
     blockNumber |-> (i + 1) \div 2, logIndex |-> i]
ChainLogs ==
    UNION {{[i \in 1..n |-> LogOf(k[i], i)] : k \in [1..n -> LogKinds]} : n \in 0..MaxLogs}

\* lines 775-787: get_events_logs with the topic of one event type
EventLogs(logs, ev) == SelectSeq(logs, LAMBDA l : l.event = ev)

\* lines 247-255 and 308-319: the token0 and token1 amounts of one log
Token0Amount(ev, a) ==
    IF ev = "Swap"
    THEN IF a.amount1In = 0 THEN a.amount0In
         ELSE IF a.amount0In = 0 THEN a.amount0Out ELSE 0
    ELSE a.amount0
Token1Amount(ev, a) ==
    IF ev = "Swap"
    THEN IF a.amount1In = 0 THEN a.amount1Out
         ELSE IF a.amount0In = 0 THEN a.amount1In ELSE 0
    ELSE a.amount1

\* lines 307-319: token0_swapped (side 0) and token1_swapped (side 1)
RECURSIVE Swapped(_, _, _)
Swapped(ev, logs, side) ==
    IF logs = <<>> THEN 0
    ELSE (IF side = 0 THEN Token0Amount(ev, Head(logs).args)
                      ELSE Token1Amount(ev, Head(logs).args))
         + Swapped(ev, Tail(logs), side)

\* lines 298-299, 312, 316: token0_fee (side 0) and token1_fee (side 1) after
\* the loop: the input amount of the last Swap log of the direction, as the
\* loop assigns and does not add.  0 stands for None; the code tests both for
\* truth only (lines 367, 371).
RECURSIVE FeeBase(_, _)
FeeBase(logs, side) ==
    IF logs = <<>> THEN 0
    ELSE LET a == logs[Len(logs)].args
             front == SubSeq(logs, 1, Len(logs) - 1)
         IN IF side = 0
            THEN IF a.amount1In = 0 THEN a.amount0In ELSE FeeBase(front, side)
            ELSE IF a.amount1In # 0 /\ a.amount0In = 0 THEN a.amount1In
                 ELSE FeeBase(front, side)

\* lines 258-259, 324-325, 368, 372: amount / 10 ** decimals
Normalize(raw) == raw \div (10 ^ Decimals)

\* `if token0Price:` on the bytes that redis returns: true for every value
\* that is there, b'0' included
Known(p) == p # NoPrice

\* `not token0Price` after lines 391 and 401 made a float of a known price:
\* true for None and for 0.0
Falsy(p) == p = NoPrice \/ p = 0

\* lines 262-265 and 361-364: USD of Swap amounts
SwapUsd(t0, t1, p0, p1) ==
    IF Known(p0) THEN t0 * p0 ELSE IF Known(p1) THEN t1 * p1 ELSE 0

\* lines 267-270 and 390-403: the sum of the sides whose price is there
KnownSidesUsd(t0, t1, p0, p1) ==
    (IF Known(p0) THEN t0 * p0 ELSE 0) + (IF Known(p1) THEN t1 * p1 ELSE 0)

\* lines 266-272: USD of the amounts of one Mint or Burn log
LiquidityUsdOfLog(t0, t1, p0, p1) ==
    IF ~Known(p0) \/ ~Known(p1) THEN 2 * KnownSidesUsd(t0, t1, p0, p1)
    ELSE KnownSidesUsd(t0, t1, p0, p1)

\* faulty variant: the sides are doubled whatever prices are there
LiquidityUsd_AlwaysDoubled(t0, t1, p0, p1) == 2 * KnownSidesUsd(t0, t1, p0, p1)

\* lines 390-410: USD of the Mint or Burn totals
LiquidityUsd(t0, t1, p0, p1) ==
    IF Falsy(p0) \/ Falsy(p1) THEN 2 * KnownSidesUsd(t0, t1, p0, p1)
    ELSE KnownSidesUsd(t0, t1, p0, p1)

\* lines 366-374: trade_fee_usd of the Swap logs, in thousandths of a dollar
SwapFee(logs, p0, p1) ==
    IF FeeBase(logs, 0) # 0 /\ Known(p0)
    THEN Normalize(FeeBase(logs, 0)) * FeeRate * p0
    ELSE IF FeeBase(logs, 1) # 0 /\ Known(p1)
         THEN Normalize(FeeBase(logs, 1)) * FeeRate * p1
         ELSE 0

\* lines 236-289: one entry of recent_transaction_logs
RecentLog(ev, log, p0, p1) ==
    LET t0 == Normalize(Token0Amount(ev, log.args))
        t1 == Normalize(Token1Amount(ev, log.args))
    IN [event |-> log.event, blockNumber |-> log.blockNumber,
        logIndex |-> log.logIndex, token0_amount |-> t0, token1_amount |-> t1,
        trade_amount_usd |-> IF ev = "Swap" THEN SwapUsd(t0, t1, p0, p1)
                             ELSE LiquidityUsdOfLog(t0, t1, p0, p1)]

\* lines 292-419: what extract_trade_volume_data returns for the logs of one
\* event type.  totalFeeUSD is only in the Swap result; the build reads it
\* with a default of 0 (pair_total_reserves.py line 120).
ExtractTradeVolumeData(ev, logs, p0, p1) ==
    LET t0 == Normalize(Swapped(ev, logs, 0))
        t1 == Normalize(Swapped(ev, logs, 1))
    IN [totalTradesUSD |-> IF ev = "Swap" THEN SwapUsd(t0, t1, p0, p1)
                           ELSE LiquidityUsd(t0, t1, p0, p1),
        totalFeeUSD |-> IF ev = "Swap" THEN SwapFee(logs, p0, p1) ELSE 0,
        token0TradeVolume |-> t0,
        token1TradeVolume |-> t1,
        recent_transaction_logs |-> [i \in 1..Len(logs) |-> RecentLog(ev, logs[i], p0, p1)]]

\* pair_total_reserves.py lines 112-123: final_events_list, extended with the
\* logs of the event types from the i-th on, in the order of rets
RECURSIVE FinalEvents(_, _)
FinalEvents(rets, i) ==
    IF i > Len(TradeEvents) THEN <<>>
    ELSE rets[TradeEvents[i]].logs \o FinalEvents(rets, i + 1)

\* lines 108-122: the sum of one field of the trades of the event types
RECURSIVE TotalOf(_, _, _)
TotalOf(rets, field, i) ==
    IF i > Len(TradeEvents) THEN 0
    ELSE rets[TradeEvents[i]].trades[field] + TotalOf(rets, field, i + 1)

\* faulty variant: the timestamp is always the time of the processing
TradeTimestamp_WallClock(now, blockts) == now

\* lines 90, 124-129: the fallback unless the block's timestamp was fetched
TradeTimestamp(now, blockts) == IF blockts = NoTs THEN now ELSE blockts

\* lines 130-140: the snapshot.  The amounts are whole numbers (the fee whole
\* thousandths), which the rounding to 6 decimals leaves as they are.
TradeSnapshot(rets, now, blockts) ==
    [timestamp |-> TradeTimestamp(now, blockts),
     totalTrade |-> TotalOf(rets, "totalTradesUSD", 1),
     totalFee |-> TotalOf(rets, "totalFeeUSD", 1),
     token0TradeVolume |-> TotalOf(rets, "token0TradeVolume", 1),
     token1TradeVolume |-> TotalOf(rets, "token1TradeVolume", 1),
     events |-> FinalEvents(rets, 1)]

NoRets == [e \in {} |-> 0]
NoSnapshot ==
    [timestamp |-> NoTs, totalTrade |-> 0, totalFee |-> 0, token0TradeVolume |-> 0,
     token1TradeVolume |-> 0, events |-> <<>>]

\* pair_total_reserves.py lines 90-97 and uniswap_functions.py lines 714-771:
\* the work unit is processed (again); the gate admits the call, the block
\* details of to_block are fetched or the fetch raises (lines 758-763), and
\* the logs of the three event types are fetched
TV_Call ==
    /\ proc = "trades"
    /\ tv_pc \in {"idle", "built", "failed"}
    /\ n_runs < MaxRuns
    /\ n_runs' = n_runs + 1
    /\ tv_now' = WallClock(n_runs + 1)
    /\ \E fetch \in {"ok", "exception"} :
          tv_blockts' = IF fetch = "ok" THEN BlockTimestamp ELSE NoTs
    /\ tv_pc' = "fetched"
    /\ tv_i' = 1
    /\ tv_rets' = NoRets
    /\ tv_snapshot' = NoSnapshot
    /\ UNCHANGED <<proc, dvars, svars, wvars, rlvars, pxvars, mdvars, zvars, tv_logs, tv_price0,
                   tv_price1, tv_snaps>>

\* lines 795-816: rets gets the logs and the trades of the next event type
TV_Extract ==
    /\ proc = "trades"
    /\ tv_pc = "fetched"
    /\ LET ev == TradeEvents[tv_i]
           logs == EventLogs(tv_logs, ev)
       IN tv_rets' = [e \in DOMAIN tv_rets \cup {ev} |->
                        IF e = ev
                        THEN [logs |-> logs,
                              trades |-> ExtractTradeVolumeData(ev, logs, tv_price0,
                                                                tv_price1)]
                        ELSE tv_rets[e]]
    /\ tv_i' = tv_i + 1
    /\ tv_pc' = IF tv_i = Len(TradeEvents) THEN "extracted" ELSE "fetched"
    /\ UNCHANGED <<proc, dvars, svars, wvars, rlvars, pxvars, mdvars, zvars, tv_logs, tv_price0,
                   tv_price1, tv_now, tv_blockts, tv_snapshot, tv_snaps, n_runs>>

\* lines 822-825 and pair_total_reserves.py lines 98-106: a query or a store
\* access raises; no snapshot is built
TV_Raises ==
    /\ proc = "trades"
    /\ tv_pc = "fetched"
    /\ tv_pc' = "failed"
    /\ UNCHANGED <<proc, dvars, svars, wvars, rlvars, pxvars, mdvars, zvars, tv_logs, tv_price0,
                   tv_price1, tv_now, tv_blockts, tv_i, tv_rets, tv_snapshot, tv_snaps,
                   n_runs>>

\* pair_total_reserves.py lines 107-141: the snapshot is built
TV_Build ==
    /\ proc = "trades"
    /\ tv_pc = "extracted"
    /\ tv_snapshot' = TradeSnapshot(tv_rets, tv_now, tv_blockts)
    /\ tv_snaps' = tv_snaps \cup {tv_snapshot'}
    /\ tv_pc' = "built"
    /\ UNCHANGED <<proc, dvars, svars, wvars, rlvars, pxvars, mdvars, zvars, tv_logs, tv_price0,
                   tv_price1, tv_now, tv_blockts, tv_i, tv_rets, n_runs>>

TradesStep == TV_Call \/ TV_Extract \/ TV_Raises \/ TV_Build

(* --------------------------- pair metadata cache ----------------------- *)
\* uniswap_functions.py, get_pair_per_token_metadata (lines 486-580), looked
\* up for one pair by the workers that share the store.  The token contracts
\* of a pair and their name, symbol and decimals do not change on the chain.
MaxLookups == 3      \* lookups that are started
Workers == {"wA", "wB"}

\* what token0() and token1() of the pair return (lines 501-506)
ChainAddrs == [token0Addr |-> "T0", token1Addr |-> "T1"]

\* what name(), symbol() and decimals() of the two tokens return (533-544)
ChainData ==
    [token0_name |-> "n0", token0_symbol |-> "s0", token0_decimals |-> "1",
     token1_name |-> "n1", token1_symbol |-> "s1", token1_decimals |-> "1"]

\* lines 548-556: the mapping that is written to the tokens-data hash
DataMapping(d) ==
    [token0_name |-> d.token0_name, token0_symbol |-> d.token0_symbol,
     token0_decimals |-> d.token0_decimals, token1_name |-> d.token1_name,
     token1_symbol |-> d.token1_symbol, token1_decimals |-> d.token1_decimals,
     pair_symbol |-> <<d.token0_symbol, d.token1_symbol>>]

\* a hash that is not in the store: hgetall returns an empty dict
EmptyHash == [f \in {} |-> ""]

\* faulty variant: only one field of the mapping has reached the hash
HSet_OneField(hash, mapping) ==
    LET f0 == CHOOSE f \in DOMAIN mapping : TRUE
    IN [f \in DOMAIN hash \cup {f0} |-> IF f = f0 THEN mapping[f] ELSE hash[f]]

\* lines 507-512 and 546-557: hset(name, mapping=...), one command of the
\* store that sets every field of the mapping
HSet(hash, mapping) ==
    [f \in DOMAIN hash \cup DOMAIN mapping |->
        IF f \in DOMAIN mapping THEN mapping[f] ELSE hash[f]]

\* lines 497-498 and 525-530: the fields that are read from a hash that was
\* found; a field that is missing raises KeyError
AddrFields == {"token0Addr", "token1Addr"}
DataFields == {"token0_name", "token0_symbol", "token0_decimals",
               "token1_name", "token1_symbol", "token1_decimals"}
ReadFields(hash, fields) == [f \in fields |-> hash[f]]

\* lines 560-576: the metadata that is returned
Metadata(a, d) ==
    [token0 |-> [address |-> a.token0Addr, name |-> d.token0_name,
                 symbol |-> d.token0_symbol, decimals |-> d.token0_decimals],
     token1 |-> [address |-> a.token1Addr, name |-> d.token1_name,
                 symbol |-> d.token1_symbol, decimals |-> d.token1_decimals],
     pair |-> [symbol |-> <<d.token0_symbol, d.token1_symbol>>]]

\* a lookup: position, the addresses and the data it holds and where it got
\* them ("cache", "chain" or "none"), whether it returned metadata or the
\* empty dict of line 580, and the exception that line 577 caught
NoLookup ==
    [pc |-> "idle", addrs |-> EmptyHash, addrs_from |-> "none",
     data |-> EmptyHash, data_from |-> "none", returned |-> "none",
     meta |-> EmptyHash, error |-> "none"]

MDRest ==
    UNCHANGED <<proc, dvars, svars, wvars, rlvars, pxvars, tvvars, zvars>>

\* line 486: a worker looks the pair up
MD_Call(w) ==
    /\ proc = "metadata"
    /\ md_call[w].pc \in {"idle", "done"}
    /\ n_lookups < MaxLookups
    /\ n_lookups' = n_lookups + 1
    /\ md_call' = [md_call EXCEPT ![w] = [NoLookup EXCEPT !.pc = "get_addrs"]]
    /\ MDRest
    /\ UNCHANGED <<md_addr, md_data>>

\* lines 495-498: hgetall of the tokens-addresses hash
MD_GetAddrs(w) ==
    /\ proc = "metadata"
    /\ md_call[w].pc = "get_addrs"
    /\ md_call' =
          [md_call EXCEPT ![w] =
              IF md_addr = EmptyHash
              THEN [@ EXCEPT !.pc = "rpc_addrs"]
              ELSE IF AddrFields \subseteq DOMAIN md_addr
                   THEN [@ EXCEPT !.pc = "get_data", !.addrs_from = "cache",
                                  !.addrs = ReadFields(md_addr, AddrFields)]
                   ELSE [@ EXCEPT !.pc = "done", !.returned = "empty",
                                  !.error = "KeyError"]]
    /\ MDRest
    /\ UNCHANGED <<md_addr, md_data, n_lookups>>

\* lines 501-506: token0() and token1() of the pair contract
MD_RpcAddrs(w) ==
    /\ proc = "metadata"
    /\ md_call[w].pc = "rpc_addrs"
    /\ md_call' = [md_call EXCEPT ![w] = [@ EXCEPT !.pc = "set_addrs",
                                                   !.addrs_from = "chain",
                                                   !.addrs = ChainAddrs]]
    /\ MDRest
    /\ UNCHANGED <<md_addr, md_data, n_lookups>>

\* lines 507-512: the addresses are written to the store
MD_SetAddrs(w) ==
    /\ proc = "metadata"
    /\ md_call[w].pc = "set_addrs"
    /\ md_addr' = HSet(md_addr, md_call[w].addrs)
    /\ md_call' = [md_call EXCEPT ![w] = [@ EXCEPT !.pc = "get_data"]]
    /\ MDRest
    /\ UNCHANGED <<md_data, n_lookups>>

\* lines 523-530 and 560-576: hgetall of the tokens-data hash; with the data
\* of the hash the metadata is returned
MD_GetData(w) ==
    /\ proc = "metadata"
    /\ md_call[w].pc = "get_data"
    /\ md_call' =
          [md_call EXCEPT ![w] =
              IF md_data = EmptyHash
              THEN [@ EXCEPT !.pc = "rpc_data"]
              ELSE IF DataFields \subseteq DOMAIN md_data
                   THEN [@ EXCEPT !.pc = "done", !.data_from = "cache",
                                  !.data = ReadFields(md_data, DataFields),
                                  !.returned = "metadata",
                                  !.meta = Metadata(md_call[w].addrs,
                                                    ReadFields(md_data, DataFields))]
                   ELSE [@ EXCEPT !.pc = "done", !.returned = "empty",
                                  !.error = "KeyError"]]
    /\ MDRest
    /\ UNCHANGED <<md_addr, md_data, n_lookups>>

\* lines 532-544: name(), symbol() and decimals() of both tokens
MD_RpcData(w) ==
    /\ proc = "metadata"
    /\ md_call[w].pc = "rpc_data"
    /\ md_call' = [md_call EXCEPT ![w] = [@ EXCEPT !.pc = "set_data",
                                                   !.data_from = "chain",
                                                   !.data = ChainData]]
    /\ MDRest
    /\ UNCHANGED <<md_addr, md_data, n_lookups>>

\* lines 546-576: the data is written to the store and the metadata returned
MD_SetData(w) ==
    /\ proc = "metadata"
    /\ md_call[w].pc = "set_data"
    /\ md_data' = HSet(md_data, DataMapping(md_call[w].data))
    /\ md_call' = [md_call EXCEPT ![w] = [@ EXCEPT !.pc = "done",
                                                   !.returned = "metadata",
                                                   !.meta = Metadata(md_call[w].addrs,
                                                                     md_call[w].data)]]
    /\ MDRest
    /\ UNCHANGED <<md_addr, n_lookups>>

\* lines 577-580: a call of the chain or of the store raises; the error is
\* logged and the empty dict is returned
MD_Raises(w) ==
    /\ proc = "metadata"
    /\ md_call[w].pc \in {"get_addrs", "rpc_addrs", "set_addrs", "get_data",
                          "rpc_data", "set_data"}
    /\ md_call' = [md_call EXCEPT ![w] = [@ EXCEPT !.pc = "done", !.returned = "empty",
                                                   !.error = "raised"]]
    /\ MDRest
    /\ UNCHANGED <<md_addr, md_data, n_lookups>>

MetadataStep ==
    \E w \in Workers :
        \/ MD_Call(w) \/ MD_GetAddrs(w) \/ MD_RpcAddrs(w) \/ MD_SetAddrs(w)
        \/ MD_GetData(w) \/ MD_RpcData(w) \/ MD_SetData(w) \/ MD_Raises(w)

(* ----------------------- reserves of one work unit --------------------- *)
\* callback_modules/pair_total_reserves.py lines 39-86 with
\* get_liquidity_of_each_token_reserve_async (uniswap_functions.py lines
\* 584-701): the reserves snapshot of one work unit, one call of the helper
\* per block of the epoch.  The helper is followed statement by statement:
\* the admission loop, the block details, the pair metadata, the retried
\* getReserves, the amounts.  What the store and the chain answer is drawn
\* with \E.
EpochBlocks == 1..MaxBlock

\* line 47: fetch_ts is True for the last block of the epoch
FetchTs == rs_block_num = rs_end

\* faulty variant: the block details are fetched without being counted
LimitIncrBy_NoTimestamp(fetch_timestamp) == 1

\* lines 602-604: limit_incr_by, the score of one call of the helper
LimitIncrBy(fetch_timestamp) == IF fetch_timestamp THEN 2 ELSE 1

\* faulty variant: stop_after_attempt(4)
StopAfterAttempt_Four(attempt_number) == attempt_number >= 4

\* line 655: stop=stop_after_attempt(3)
StopAfterAttempt(attempt_number) == attempt_number >= 3

RSRest ==
    UNCHANGED <<proc, dvars, svars, wvars, rlvars, pxvars, tvvars, mdvars, prvars,
                agvars, smvars>>

\* lines 55-58 and 69-77: the helper raised; the loop breaks, the unit is
\* pushed onto the failed-epochs list and the build returns None
RSFails(cause) ==
    /\ rs_snapshot' = "none"
    /\ rs_rpush' = rs_rpush + 1
    /\ rs_cause' = cause
    /\ rs_pc' = "done"

\* lines 39-54 and 592-611: the build starts with the first block and the
\* helper enters its admission loop with can_request = False
RS_Build ==
    /\ proc = "reserves"
    /\ rs_pc = "idle"
    /\ rs_block_num' = rs_begin
    /\ rs_ts' = "wallclock"
    /\ rs_each_lim' = 1
    /\ rs_can_request' = FALSE
    /\ rs_pc' = "gate"
    /\ RSRest
    /\ UNCHANGED <<rs_begin, rs_end, rs_charged, rs_not_admitted, rs_metadata,
                   rs_meta_calls, rs_attempts, rs_reserves, rs_resmap,
                   rs_snapshot, rs_rpush, rs_cause>>

RSInGate ==
    /\ proc = "reserves"
    /\ rs_pc = "gate"
    /\ rs_each_lim \in Limits

\* lines 618-619 and 637-638: hit returns True
RS_HitAdmits ==
    /\ RSInGate
    /\ rs_charged' = [rs_charged EXCEPT ![rs_each_lim] = @ + LimitIncrBy(FetchTs)]
    /\ rs_can_request' = TRUE
    /\ rs_each_lim' = rs_each_lim + 1
    /\ RSRest
    /\ UNCHANGED <<rs_begin, rs_end, rs_pc, rs_block_num, rs_ts, rs_not_admitted,
                   rs_metadata, rs_meta_calls, rs_attempts, rs_reserves,
                   rs_resmap, rs_snapshot, rs_rpush, rs_cause>>

\* lines 618-625: hit returns False (the store has counted the score all the
\* same); can_request = False and break
RS_HitDenies ==
    /\ RSInGate
    /\ rs_charged' = [rs_charged EXCEPT ![rs_each_lim] = @ + LimitIncrBy(FetchTs)]
    /\ rs_can_request' = FALSE
    /\ rs_not_admitted' = TRUE
    /\ rs_each_lim' = rl_limits + 1
    /\ RSRest
    /\ UNCHANGED <<rs_begin, rs_end, rs_pc, rs_block_num, rs_ts, rs_metadata,
                   rs_meta_calls, rs_attempts, rs_reserves, rs_resmap,
                   rs_snapshot, rs_rpush, rs_cause>>

\* lines 626-633: hit raises a store error, which is logged; the loop goes on
RS_HitRaises ==
    /\ RSInGate
    /\ rs_not_admitted' = TRUE
    /\ rs_each_lim' = rs_each_lim + 1
    /\ RSRest
    /\ UNCHANGED <<rs_begin, rs_end, rs_pc, rs_block_num, rs_ts, rs_charged,
                   rs_can_request, rs_metadata, rs_meta_calls, rs_attempts,
                   rs_reserves, rs_resmap, rs_snapshot, rs_rpush, rs_cause>>

\* lines 639-647 and 696-701: after the loop the calls are issued if
\* can_request, else the exhausted_api_key_rate_limit exception is raised
RS_Decide ==
    /\ proc = "reserves"
    /\ rs_pc = "gate"
    /\ rs_each_lim \notin Limits
    /\ IF rs_can_request
       THEN /\ rs_pc' = IF FetchTs THEN "get_block" ELSE "metadata"
            /\ UNCHANGED <<rs_snapshot, rs_rpush, rs_cause>>
       ELSE RSFails("rate_limit")
    /\ RSRest
    /\ UNCHANGED <<rs_begin, rs_end, rs_block_num, rs_ts, rs_each_lim, rs_can_request,
                   rs_charged, rs_not_admitted, rs_metadata, rs_meta_calls,
                   rs_attempts, rs_reserves, rs_resmap>>

\* lines 640-645: w3.eth.get_block returns the block details or raises, and
\* then block_details is None (pair_total_reserves.py lines 62-68)
RS_GetBlock ==
    /\ proc = "reserves"
    /\ rs_pc = "get_block"
    /\ \E fetch \in {"ok", "exception"} : rs_ts' = MaxBlockTimestamp(rs_ts, fetch)
    /\ rs_pc' = "metadata"
    /\ RSRest
    /\ UNCHANGED <<rs_begin, rs_end, rs_block_num, rs_each_lim, rs_can_request,
                   rs_charged, rs_not_admitted, rs_metadata, rs_meta_calls,
                   rs_attempts, rs_reserves, rs_resmap, rs_snapshot, rs_rpush,
                   rs_cause>>

\* lines 648-653: get_pair_per_token_metadata returns the metadata, or the
\* empty dict when a call of the chain or of the store raised (lines 577-580)
RS_Metadata ==
    /\ proc = "reserves"
    /\ rs_pc = "metadata"
    /\ \E returned \in {"metadata", "empty"} : rs_metadata' = returned
    /\ rs_meta_calls' = [rs_meta_calls EXCEPT ![rs_block_num] = @ + 1]
    /\ rs_pc' = "getReserves"
    /\ RSRest
    /\ UNCHANGED <<rs_begin, rs_end, rs_block_num, rs_ts, rs_each_lim,
                   rs_can_request, rs_charged, rs_not_admitted, rs_attempts,
                   rs_reserves, rs_resmap, rs_snapshot, rs_rpush, rs_cause>>

\* lines 654-659 and 698-701: one attempt of getReserves under AsyncRetrying.
\* An attempt that returns ends the loop (the reserves are a non-empty
\* list); an attempt that raises is followed by another one unless the stop
\* condition holds, and then the exception is raised again (reraise=True)
\* and leaves the helper.
RS_GetReserves ==
    /\ proc = "reserves"
    /\ rs_pc = "getReserves"
    /\ rs_attempts' = [rs_attempts EXCEPT ![rs_block_num] = @ + 1]
    /\ \E reply \in {"ok", "exception"} :
          /\ rs_reserves' = [rs_reserves EXCEPT ![rs_block_num] = reply]
          /\ IF reply = "ok"
             THEN /\ rs_pc' = "amounts"
                  /\ UNCHANGED <<rs_snapshot, rs_rpush, rs_cause>>
             ELSE IF StopAfterAttempt(rs_attempts[rs_block_num] + 1)
                  THEN RSFails("getReserves")
                  ELSE UNCHANGED <<rs_pc, rs_snapshot, rs_rpush, rs_cause>>
    /\ RSRest
    /\ UNCHANGED <<rs_begin, rs_end, rs_block_num, rs_ts, rs_each_lim,
                   rs_can_request, rs_charged, rs_not_admitted, rs_metadata,
                   rs_meta_calls, rs_resmap>>

\* lines 660-701 and pair_total_reserves.py lines 59-61, 78-86: the token
\* entries of the metadata are read, which raises KeyError on the empty dict;
\* the cached prices are read from the store (mget), which can raise; the
\* amounts are returned and the loop of the build puts them into the maps
\* and goes on with the next block
RS_Amounts ==
    /\ proc = "reserves"
    /\ rs_pc = "amounts"
    /\ IF rs_metadata = "empty"
       THEN /\ RSFails("metadata")
            /\ UNCHANGED <<rs_block_num, rs_each_lim, rs_can_request, rs_metadata,
                           rs_resmap>>
       ELSE \E mget \in {"ok", "exception"} :
              IF mget = "exception"
              THEN /\ RSFails("store")
                   /\ UNCHANGED <<rs_block_num, rs_each_lim, rs_can_request,
                                  rs_metadata, rs_resmap>>
              ELSE /\ rs_resmap' = rs_resmap \cup {rs_block_num}
                   /\ UNCHANGED <<rs_rpush, rs_cause>>
                   /\ IF rs_block_num = rs_end
                      THEN /\ rs_snapshot' = "built"
                           /\ rs_pc' = "done"
                           /\ UNCHANGED <<rs_block_num, rs_each_lim, rs_can_request,
                                          rs_metadata>>
                      ELSE /\ rs_block_num' = rs_block_num + 1
                           /\ rs_each_lim' = 1
                           /\ rs_can_request' = FALSE
                           /\ rs_metadata' = "unset"
                           /\ rs_pc' = "gate"
                           /\ UNCHANGED rs_snapshot
    /\ RSRest
    /\ UNCHANGED <<rs_begin, rs_end, rs_ts, rs_charged, rs_not_admitted,
                   rs_meta_calls, rs_attempts, rs_reserves>>

ReservesStep ==
    \/ RS_Build \/ RS_HitAdmits \/ RS_HitDenies \/ RS_HitRaises \/ RS_Decide
    \/ RS_GetBlock \/ RS_Metadata \/ RS_GetReserves \/ RS_Amounts

(* --------------------------- price-cache prune -------------------------- *)
\* uniswap_functions.py lines 338-351 (extract_trade_volume_data): the price
\* of a token at price_block is read from the token's block-height zset and
\* the zset is pruned, in one asyncio.gather.  The zset is modelled by the
\* scores (block heights) of its members; the behaviour follows token0, the
\* commands for token1 go to a zset of its own.
MaxPoints == 2       \* points in the zset before the prune
PruneDepth == 20
PriceBlocks == (PruneDepth + 1)..(PruneDepth + MaxBlock)
PriceHeights == 0..(PruneDepth + MaxBlock)
PriceZsets ==
    {{}} \cup {{f[i] : i \in 1..MaxPoints} : f \in [1..MaxPoints -> PriceHeights]}
NoHeight == 0 - 1

\* line 339: prune anything older than 20 blocks
PricePruningBlock(price_block) == price_block - PruneDepth

\* zremrangebyscore(name, min='-inf', max=max_score): the members whose score
\* is at most max_score are removed (both ends of the interval are inclusive)
ZRemRangeByScore(zset, max_score) == {h \in zset : ~(h <= max_score)}

\* zrevrange(name, 0, 0): the member with the highest score
ZRevRangeFirst(zset) ==
    IF zset = {} THEN NoHeight ELSE CHOOSE h \in zset : \A g \in zset : g <= h

PRRest ==
    UNCHANGED <<proc, dvars, svars, wvars, rlvars, pxvars, tvvars, mdvars, rsvars,
                agvars, smvars>>

\* lines 338-340: price_block is the block of the first log of the epoch, or
\* from_block; the four commands of the gather are scheduled
PR_Call ==
    /\ proc = "prune"
    /\ pr_pc = "idle"
    /\ \E c \in PriceBlocks : pr_price_block' = c
    /\ pr_before' = pr_zset
    /\ pr_pc' = "gather"
    /\ pr_get' = "zrangebyscore"
    /\ PRRest
    /\ UNCHANGED <<pr_zset, pr_pruned, pr_price>>

\* lines 343-346: the prune of the token's zset, one command of the store
PR_ZRemRangeByScore ==
    /\ proc = "prune"
    /\ pr_pc = "gather"
    /\ ~pr_pruned
    /\ pr_zset' = ZRemRangeByScore(pr_zset, PricePruningBlock(pr_price_block))
    /\ pr_pruned' = TRUE
    /\ PRRest
    /\ UNCHANGED <<pr_pc, pr_price_block, pr_before, pr_get, pr_price>>

\* lines 217-222: get_price_at_block_height_in_zset reads the point at
\* price_block
PR_ZRangeByScore ==
    /\ proc = "prune"
    /\ pr_pc = "gather"
    /\ pr_get = "zrangebyscore"
    /\ IF pr_price_block \in pr_zset
       THEN pr_price' = pr_price_block /\ pr_get' = "returned"
       ELSE pr_get' = "zrevrange" /\ UNCHANGED pr_price
    /\ PRRest
    /\ UNCHANGED <<pr_pc, pr_price_block, pr_before, pr_zset, pr_pruned>>

\* lines 224-233: no point at price_block: the latest point, None if the
\* zset is empty
PR_ZRevRange ==
    /\ proc = "prune"
    /\ pr_pc = "gather"
    /\ pr_get = "zrevrange"
    /\ pr_price' = ZRevRangeFirst(pr_zset)
    /\ pr_get' = "returned"
    /\ PRRest
    /\ UNCHANGED <<pr_pc, pr_price_block, pr_before, pr_zset, pr_pruned>>

\* line 351: the gather returns when each of its awaitables has
PR_Gathered ==
    /\ proc = "prune"
    /\ pr_pc = "gather"
    /\ pr_pruned
    /\ pr_get = "returned"
    /\ pr_pc' = "done"
    /\ PRRest
    /\ UNCHANGED <<pr_price_block, pr_before, pr_zset, pr_pruned, pr_get, pr_price>>

PruneStep ==
    \/ PR_Call \/ PR_ZRemRangeByScore \/ PR_ZRangeByScore \/ PR_ZRevRange
    \/ PR_Gathered

(* --------------------------- aggregation worker ------------------------ *)
\* pooler/utils/aggregation_worker.py: _on_rabbitmq_message (lines 273-330)
\* and the processor tasks it schedules (_processor_task, lines 40-93, with
\* _map_processed_epochs_to_adapters, lines 232-262, and
\* _send_audit_payload_commit_service, lines 95-230).  The handler and the
\* tasks run on one event loop and change hands at their awaits.
MaxAggMsgs == 2      \* deliveries to the aggregation worker that are explored
AggTasks == 1..MaxAggMsgs

\* the last segment of the routing key.  aggregator_config names "indexed"
\* (init_on_event IndexFinalized), "aggregate" (AggregateFinalized) and
\* "other" (an event the handler does not know); "stray" is in no config.
RoutedTypes == {"indexed", "aggregate", "other", "stray"}
TaskTypes == {"indexed", "aggregate", "other"}
TaskTypeEventMapping(type) ==
    CASE type = "indexed" -> "IndexFinalized"
      [] type = "aggregate" -> "AggregateFinalized"
      [] OTHER -> "SnapshotFinalized"

\* lines 332-350: the project types of aggregator_config and projects_config
ProjectCalculationMapping == TaskTypes \cup {"project"}

\* what the body of a delivery parses as
AggBodies == {"IndexFinalized", "AggregateFinalized", "garbage"}

\* faulty variant: the body is taken as it comes
ParseRaw_AcceptsAll(event, body) == TRUE

\* lines 283-285, 303-305: parse_raw of the model of the event returns
ParseRaw(event, body) == body = event

NoAggMsg == [type |-> "none", body |-> "none"]
NoAggTask == [pc |-> "none", type |-> "none", snapshot |-> "unset"]

\* asyncio: the task has been created and has not ended
AggRunning(task) == task.pc \in {"scheduled", "load_scripts", "compute", "commit"}

AGRest ==
    UNCHANGED <<proc, dvars, svars, wvars, rlvars, pxvars, tvvars, mdvars, rsvars,
                prvars, smvars>>

\* the broker hands a message to the consumer
AG_Deliver ==
    /\ proc = "aggregation"
    /\ ag_pc \in {"idle", "returned", "raised"}
    /\ n_agg_msgs < MaxAggMsgs
    /\ \E type \in RoutedTypes, body \in AggBodies :
          ag_msg' = [type |-> type, body |-> body]
    /\ ag_pc' = "received"
    /\ ag_parsed' = FALSE
    /\ ag_scheduled' = FALSE
    /\ ag_acked' = FALSE
    /\ n_agg_msgs' = n_agg_msgs + 1
    /\ AGRest
    /\ UNCHANGED <<ag_task, ag_running, ag_scripts, ag_log>>

\* lines 274-276: a task type that is not configured is returned
AG_Route ==
    /\ proc = "aggregation"
    /\ ag_pc = "received"
    /\ ag_pc' = IF ag_msg.type \in TaskTypes THEN "init" ELSE "returned"
    /\ AGRest
    /\ UNCHANGED <<ag_msg, ag_parsed, ag_scheduled, ag_acked, n_agg_msgs, ag_task,
                   ag_running, ag_scripts, ag_log>>

\* lines 278 and 352-356: init returns, or one of its connections raises
AG_Init ==
    /\ proc = "aggregation"
    /\ ag_pc = "init"
    /\ \E reply \in {"ok", "exception"} :
          ag_pc' = IF reply = "ok" THEN "parse" ELSE "raised"
    /\ AGRest
    /\ UNCHANGED <<ag_msg, ag_parsed, ag_scheduled, ag_acked, n_agg_msgs, ag_task,
                   ag_running, ag_scripts, ag_log>>

\* lines 282-329: the body is parsed as the model of the task type's event;
\* a body that does not parse and an event that is not known are logged and
\* returned; else the processor task is created (ensure_future), which does
\* not run before the handler awaits
AG_ParseAndSchedule ==
    /\ proc = "aggregation"
    /\ ag_pc = "parse"
    /\ LET event == TaskTypeEventMapping(ag_msg.type)
       IN IF /\ event \in {"IndexFinalized", "AggregateFinalized"}
             /\ ParseRaw(event, ag_msg.body)
          THEN /\ ag_parsed' = TRUE
               /\ ag_scheduled' = TRUE
               /\ ag_task' = [ag_task EXCEPT ![n_agg_msgs] =
                                 [NoAggTask EXCEPT !.pc = "scheduled",
                                                   !.type = ag_msg.type]]
               /\ ag_pc' = "ack"
          ELSE /\ ag_pc' = "returned"
               /\ UNCHANGED <<ag_parsed, ag_scheduled, ag_task>>
    /\ AGRest
    /\ UNCHANGED <<ag_msg, ag_acked, n_agg_msgs, ag_running, ag_scripts, ag_log>>

\* line 330
AG_Ack ==
    /\ proc = "aggregation"
    /\ ag_pc = "ack"
    /\ ag_acked' = TRUE
    /\ ag_pc' = "returned"
    /\ AGRest
    /\ UNCHANGED <<ag_msg, ag_parsed, ag_scheduled, n_agg_msgs, ag_task, ag_running,
                   ag_scripts, ag_log>>

\* lines 46-69: the task starts; a task type without a processor is logged
\* and the task returns; else the task puts itself into
\* _running_callback_tasks under a fresh uuid
AG_TaskStart(t) ==
    /\ proc = "aggregation"
    /\ ag_task[t].pc = "scheduled"
    /\ IF ag_task[t].type \notin ProjectCalculationMapping
       THEN /\ ag_task' = [ag_task EXCEPT ![t].pc = "done"]
            /\ UNCHANGED ag_running
       ELSE /\ ag_running' = ag_running \cup {t}
            /\ ag_task' = [ag_task EXCEPT
                              ![t].pc = IF ag_scripts THEN "compute"
                                        ELSE "load_scripts"]
    /\ AGRest
    /\ UNCHANGED <<ag_pc, ag_msg, ag_parsed, ag_scheduled, ag_acked, n_agg_msgs,
                   ag_scripts, ag_log>>

\* lines 69-72: load_rate_limiter_scripts returns the scripts or raises
AG_TaskLoadScripts(t) ==
    /\ proc = "aggregation"
    /\ ag_task[t].pc = "load_scripts"
    /\ \E reply \in {"ok", "exception"} :
          IF reply = "ok"
          THEN /\ ag_scripts' = TRUE
               /\ ag_task' = [ag_task EXCEPT ![t].pc = "compute"]
          ELSE /\ ag_task' = [ag_task EXCEPT ![t].pc = "raised"]
               /\ UNCHANGED ag_scripts
    /\ AGRest
    /\ UNCHANGED <<ag_pc, ag_msg, ag_parsed, ag_scheduled, ag_acked, n_agg_msgs,
                   ag_running, ag_log>>

\* lines 78-85 and 232-262: compute returns a snapshot or None, or raises;
\* the exception is logged and raised again
AG_TaskCompute(t) ==
    /\ proc = "aggregation"
    /\ ag_task[t].pc = "compute"
    /\ \E result \in {"snapshot", "none", "exception"} :
          ag_task' = [ag_task EXCEPT
                         ![t].pc = IF result = "exception" THEN "raised" ELSE "commit",
                         ![t].snapshot = IF result = "exception" THEN @ ELSE result]
    /\ AGRest
    /\ UNCHANGED <<ag_pc, ag_msg, ag_parsed, ag_scheduled, ag_acked, n_agg_msgs,
                   ag_running, ag_scripts, ag_log>>

\* lines 87-93 and 95-230: the build entry is added to the log; a snapshot is
\* published to the commit exchange and the commit entry added.  When the
\* publish raises, the entry of the failure carries the exception object, and
\* json.dumps raises TypeError on it; a zadd can raise a store error.  Only
\* when the commit service returned does line 93 delete the task's entry.
AG_TaskCommit(t) ==
    /\ proc = "aggregation"
    /\ ag_task[t].pc = "commit"
    /\ IF ag_task[t].snapshot = "none"
       THEN \E zadd \in {"ok", "exception"} :
               IF zadd = "ok"
               THEN /\ ag_log' = ag_log \cup {<<t, "AggregateBuild", "Failed">>}
                    /\ ag_running' = ag_running \ {t}
                    /\ ag_task' = [ag_task EXCEPT ![t].pc = "done"]
               ELSE /\ ag_task' = [ag_task EXCEPT ![t].pc = "raised"]
                    /\ UNCHANGED <<ag_log, ag_running>>
       ELSE \E publish \in {"ok", "exception"} :
               IF publish = "ok"
               THEN /\ ag_log' = ag_log \cup {<<t, "AggregateBuild", "Success">>,
                                              <<t, "AggregateCommit", "Success">>}
                    /\ ag_running' = ag_running \ {t}
                    /\ ag_task' = [ag_task EXCEPT ![t].pc = "done"]
               ELSE /\ ag_log' = ag_log \cup {<<t, "AggregateBuild", "Success">>}
                    /\ ag_task' = [ag_task EXCEPT ![t].pc = "raised"]
                    /\ UNCHANGED ag_running
    /\ AGRest
    /\ UNCHANGED <<ag_pc, ag_msg, ag_parsed, ag_scheduled, ag_acked, n_agg_msgs,
                   ag_scripts>>

AggregationStep ==
    \/ AG_Deliver \/ AG_Route \/ AG_Init \/ AG_ParseAndSchedule \/ AG_Ack
    \/ \E t \in AggTasks :
          \/ AG_TaskStart(t) \/ AG_TaskLoadScripts(t) \/ AG_TaskCompute(t)
          \/ AG_TaskCommit(t)

(* ------------------------- threading semaphore ------------------------- *)
\* pooler/utils/helper_functions.py, acquire_threading_semaphore (lines
\* 153-169), as get_all_pairs uses it (uniswap_functions.py lines 428-468):
\* every call of get_pair_by_index runs on a thread of the executor and
\* shares one BoundedSemaphore.
MaxThreads == 3      \* calls of the wrapped function, each on its thread
MaxPermits == 2      \* largest initial value of the semaphore
Threads == 1..MaxThreads
Permits == 1..MaxPermits

\* faulty variant: the release follows the call in the try block
ReleasedAfter_ReturnOnly(outcome) == outcome = "returned"

\* lines 160-165: the finally clause runs after a return and after an
\* exception of fn
ReleasedAfter(outcome) == outcome \in {"returned", "raised"}

SMRest ==
    UNCHANGED <<proc, dvars, svars, wvars, rlvars, pxvars, tvvars, mdvars, rsvars,
                prvars, agvars>>

\* lines 155-158 and uniswap_functions.py lines 446-450: a thread of the
\* executor calls the wrapper, which reads the semaphore from its kwargs
SM_Call(t) ==
    /\ proc = "semaphore"
    /\ sm_pc[t] = "submitted"
    /\ sm_pc' = [sm_pc EXCEPT ![t] = "acquire"]
    /\ SMRest
    /\ UNCHANGED <<sm_permits, sm_value, sm_outcome>>

\* line 159: semaphore.acquire() blocks while the value is 0
SM_Acquire(t) ==
    /\ proc = "semaphore"
    /\ sm_pc[t] = "acquire"
    /\ sm_value > 0
    /\ sm_value' = sm_value - 1
    /\ sm_pc' = [sm_pc EXCEPT ![t] = "body"]
    /\ SMRest
    /\ UNCHANGED <<sm_permits, sm_outcome>>

\* lines 160-163: fn returns or raises
SM_Body(t) ==
    /\ proc = "semaphore"
    /\ sm_pc[t] = "body"
    /\ \E outcome \in {"returned", "raised"} :
          sm_outcome' = [sm_outcome EXCEPT ![t] = outcome]
    /\ sm_pc' = [sm_pc EXCEPT ![t] = "finally"]
    /\ SMRest
    /\ UNCHANGED <<sm_permits, sm_value>>

\* lines 164-167: the finally clause releases the semaphore, and the wrapper
\* returns the response or lets the exception through
SM_Finally(t) ==
    /\ proc = "semaphore"
    /\ sm_pc[t] = "finally"
    /\ sm_value' = IF ReleasedAfter(sm_outcome[t]) THEN sm_value + 1 ELSE sm_value
    /\ sm_pc' = [sm_pc EXCEPT ![t] = "ended"]
    /\ SMRest
    /\ UNCHANGED <<sm_permits, sm_outcome>>

SemaphoreStep ==
    \E t \in Threads : SM_Call(t) \/ SM_Acquire(t) \/ SM_Body(t) \/ SM_Finally(t)

Init ==
    /\ proc \in {"distributor", "worker", "limiter", "pricing", "trades", "metadata",
                 "reserves", "prune", "aggregation", "semaphore"}
    /\ d_pc = "idle"
    /\ d_rk = <<>>
    /\ d_body = NoBody
    /\ d_idx = 1
    /\ d_trace = <<>>
    /\ d_unacked = FALSE
    /\ d_requeued = FALSE
    /\ n_inbound = 0
    /\ bus_out = <<>>
    /\ progress_log = [b \in BroadcastIds |-> {}]
    /\ failed_q = [c \in UnitContracts |-> <<>>]
    /\ w_pc = "idle"
    /\ w_body = NoBody
    /\ w_block = 0
    /\ w_reserves = "unset"
    /\ w_resmap = {}
    /\ w_ts = "unset"
    /\ w_trade = "unset"
    /\ w_trace = <<>>
    /\ w_unacked = FALSE
    /\ n_units = 0
    /\ rl_limits \in IF proc \in {"limiter", "reserves"} THEN LimitCounts ELSE {1}
    /\ rl_key \in IF proc = "limiter" THEN KeyBits ELSE {"eth_call"}
    /\ rl_now = 0
    /\ rl_count = [l \in AllLimits |-> 0]
    /\ rl_expiry = [l \in AllLimits |-> 0]
    /\ rl_call = [c \in Callers |-> NoCall]
    /\ rl_hits = [l \in AllLimits |-> [t \in 0..MaxTime |-> 0]]
    /\ rl_seen = [l \in AllLimits |-> 0]
    /\ n_calls = 0
    /\ px_token \in IF proc = "pricing" THEN {"WETH", "TKN"} ELSE {"WETH"}
    /\ px_chain \in IF px_token = "TKN" THEN Chains ELSE {<<NoPair, NoPair>>}
    /\ px_cache = {}
    /\ px_call = NoPriceCall
    /\ n_price_calls = 0
    /\ tv_logs \in IF proc = "trades" THEN ChainLogs ELSE {<<>>}
    /\ tv_price0 \in IF proc = "trades" THEN Prices0 ELSE {NoPrice}
    /\ tv_price1 \in IF proc = "trades" THEN Prices1 ELSE {NoPrice}
    /\ tv_pc = "idle"
    /\ tv_now = 0
    /\ tv_blockts = NoTs
    /\ tv_i = 1
    /\ tv_rets = NoRets
    /\ tv_snapshot = NoSnapshot
    /\ tv_snaps = {}
    /\ n_runs = 0
    /\ md_addr = EmptyHash
    /\ md_data = EmptyHash
    /\ md_call = [w \in Workers |-> NoLookup]
    /\ n_lookups = 0
    /\ \E e \in IF proc = "reserves" THEN Epochs ELSE {<<1, 1>>} :
          rs_begin = e[1] /\ rs_end = e[2]
    /\ rs_pc = "idle"
    /\ rs_block_num = 0
    /\ rs_ts = "unset"
    /\ rs_each_lim = 1
    /\ rs_can_request = FALSE
    /\ rs_charged = [l \in AllLimits |-> 0]
    /\ rs_not_admitted = FALSE
    /\ rs_metadata = "unset"
    /\ rs_meta_calls = [b \in EpochBlocks |-> 0]
    /\ rs_attempts = [b \in EpochBlocks |-> 0]
    /\ rs_reserves = [b \in EpochBlocks |-> "unset"]
    /\ rs_resmap = {}
    /\ rs_snapshot = "unset"
    /\ rs_rpush = 0
    /\ rs_cause = "none"
    /\ pr_zset \in IF proc = "prune" THEN PriceZsets ELSE {{}}
    /\ pr_before = {}
    /\ pr_pc = "idle"
    /\ pr_price_block = 0
    /\ pr_pruned = FALSE
    /\ pr_get = "idle"
    /\ pr_price = NoHeight
    /\ ag_pc = "idle"
    /\ ag_msg = NoAggMsg
    /\ ag_parsed = FALSE
    /\ ag_scheduled = FALSE
    /\ ag_acked = FALSE
    /\ n_agg_msgs = 0
    /\ ag_task = [t \in AggTasks |-> NoAggTask]
    /\ ag_running = {}
    /\ ag_scripts = FALSE
    /\ ag_log = {}
    /\ sm_permits \in IF proc = "semaphore" THEN Permits ELSE {1}
    /\ sm_value = sm_permits
    /\ sm_pc = [t \in Threads |-> "submitted"]
    /\ sm_outcome = [t \in Threads |-> "none"]

Next ==
    \/ D_Deliver \/ DistStep \/ W_Deliver \/ WorkerStep
    \/ LimiterStep \/ RL_OtherHit \/ RL_Tick
    \/ PricingStep
    \/ TradesStep
    \/ MetadataStep
    \/ ReservesStep
    \/ PruneStep
    \/ AggregationStep
    \/ SemaphoreStep

Spec == Init /\ [][Next]_vars

\* The consume loops are driven by the event loop of the process: a handler
\* that can take a step takes it.
FairSpec == Spec /\ WF_vars(DistStep) /\ WF_vars(WorkerStep)

(* ------------------------------ properties ----------------------------- *)
WIdx == 1..Len(w_trace)
DIdx == 1..Len(d_trace)
WHas(op, stream) == \E i \in WIdx : w_trace[i].op = op /\ w_trace[i].stream = stream
WReplied(op, stream, reply) ==
    \E i \in WIdx : /\ w_trace[i].op = op
                    /\ w_trace[i].stream = stream
                    /\ w_trace[i].reply = reply
WFinished == w_pc \in {"returned", "raised"}
NumOps(t, op) == Cardinality({i \in 1..Len(t) : t[i].op = op})
Range(q) == {q[i] : i \in 1..Len(q)}

\* C1: once the handler of a WorkUnit has ended, a reserves commit that
\* failed (an exception of commit_payload, or a reply with a top-level
\* message) was followed by the trade-volume build.
C1_CommitFailureKeepsTradePath ==
    (WFinished /\ (\/ WReplied("commit_payload", "reserves", "exception")
                   \/ WReplied("commit_payload", "reserves", "reject")))
        => WHas("getTrades", "trade")

\* C2: once the handler has ended with the reserves build failed, the
\* trade-volume build succeeded and its diff rule set, the trade-volume
\* snapshot was committed under the WorkUnit's contract and a
\* TradeVolume.SnapshotCommit entry is in the broadcast's log.
C2_TradePathCompletes ==
    (/\ WFinished
     /\ w_reserves = "none"
     /\ w_trade = "built"
     /\ WReplied("set_diff_rule", "trade", "ok"))
        => /\ \E i \in WIdx : /\ w_trace[i].op = "commit_payload"
                              /\ w_trace[i].stream = "trade"
                              /\ w_trace[i].contract = w_body.contract
           /\ \E e \in progress_log[w_body.broadcast_id] :
                 /\ e.action = "TradeVolume.SnapshotCommit"
                 /\ e.msg = w_body

\* C3: when the reserves query of a block has failed, the WorkUnit is on the
\* failed-epochs list of its own contract, the broadcast's log holds a
\* PairReserves.SnapshotBuild entry with status Failed for it (from the build
\* log step on), and the reserves stream sees no set_diff_rule and no
\* commit_payload.
ReservesQueryFailed == WReplied("getReserves", "reserves", "exception")

AckFirstOnce(t) == \A i \in 1..Len(t) : (t[i].op = "ack") <=> (i = 1)

C4_AckFirstExactlyOnce ==
    /\ AckFirstOnce(d_trace)
    /\ AckFirstOnce(w_trace)
    /\ d_unacked => d_pc = "received"
    /\ w_unacked => w_pc = "received"
    /\ (n_inbound > 0 /\ d_pc # "received") => Len(d_trace) >= 1
    /\ (n_units > 0 /\ w_pc # "received") => Len(w_trace) >= 1
    /\ ~d_requeued

C4_Witness ==
    /\ w_pc = "raised"
    /\ ~w_unacked
    /\ WHas("commit_payload", "reserves")

\* C5: in the effects of one handler every effect of the reserves stream
\* (query, dead-letter push, build entry, diff rule, commit, commit entry)
\* comes before every effect of the trade-volume stream.
C5_ReservesBeforeTrade ==
    \A i, j \in WIdx :
        (w_trace[i].stream = "reserves" /\ w_trace[j].stream = "trade") => i < j

C5_Witness ==
    /\ WHas("commit_payload", "reserves")
    /\ WHas("commit_payload", "trade")

\* C6: a commit_payload reply with a top-level message is followed at once by
\* a SnapshotCommit entry of that stream with status Failed that carries the
\* response under 'error' and is in the broadcast's log; commit_payload is
\* not called a second time for the stream and no dead-letter push of the
\* stream follows.
C6_RejectIsLoggedNotRetried ==
    \A i \in WIdx :
        (w_trace[i].op = "commit_payload" /\ w_trace[i].reply = "reject") =>
            /\ i < Len(w_trace)
            /\ w_trace[i + 1].op = "zadd"
            /\ w_trace[i + 1].key = w_body.broadcast_id
            /\ w_trace[i + 1].entry.action =
                   (IF w_trace[i].stream = "reserves"
                    THEN "PairReserves.SnapshotCommit"
                    ELSE "TradeVolume.SnapshotCommit")
            /\ w_trace[i + 1].entry.status = "Failed"
            /\ w_trace[i + 1].entry.detail = "error"
            /\ w_trace[i + 1].entry \in progress_log[w_body.broadcast_id]
            /\ \A j \in WIdx \ {i} :
                   ~(/\ w_trace[j].op = "commit_payload"
                     /\ w_trace[j].stream = w_trace[i].stream)
            /\ \A j \in WIdx :
                   (j > i /\ w_trace[j].op = "rpush")
                       => w_trace[j].stream # w_trace[i].stream
            /\ (w_trace[i].stream = "trade" /\ w_trade = "built"
                    /\ w_reserves = "built" /\ n_units = 1)
                  => failed_q = [c \in UnitContracts |-> <<>>]

C6_Witness ==
    /\ WReplied("commit_payload", "reserves", "reject")
    /\ WReplied("commit_payload", "trade", "reject")
    /\ w_pc = "returned"

\* the WorkUnits published by the current handler, in order
Published == SelectSeq(d_trace, LAMBDA e : e.op = "publish")
DLogged == \E i \in DIdx : d_trace[i].op = "zadd"

\* C7 as claimed: when the handler of a valid BroadcastEpoch has appended its
\* progress entry, no two of the WorkUnits it published have the same
\* contract.
C7_NoTwoUnitsSameContract ==
    DLogged =>
        \A i, j \in 1..Len(Published) :
            i # j => Published[i].body.contract # Published[j].body.contract

\* C7 as amended: the WorkUnits published are, in list order, one per entry
\* of contracts (all entries once the progress entry is appended); each
\* carries the broadcast's broadcast_id, begin and end and the entry's
\* address in lowercase; two of them have the same contract exactly when the
\* two entries are equal ignoring case.
C7_OneUnitPerEntry ==
    (d_pc \in {"publishing", "raised", "stopped"} \/ DLogged) =>
        /\ Len(Published) = d_idx - 1
        /\ Len(Published) <= Len(d_body.contracts)
        /\ DLogged => Len(Published) = Len(d_body.contracts)
        /\ \A i \in 1..Len(Published) :
              /\ Published[i].body.kind = "unit"
              /\ Published[i].body.broadcast_id = d_body.broadcast_id
              /\ Published[i].body.begin = d_body.begin
              /\ Published[i].body.end = d_body.end
              /\ Published[i].body.contract.pair = d_body.contracts[i].pair
              /\ Published[i].body.contract.cs = "lower"
              /\ Published[i].body \in Range(bus_out)
        /\ \A i, j \in 1..Len(Published) :
              (Published[i].body.contract = Published[j].body.contract)
                 <=> (d_body.contracts[i].pair = d_body.contracts[j].pair)

C7_Witness ==
    /\ DLogged
    /\ Len(d_body.contracts) = 2
    /\ d_body.contracts[1].cs = "mixed"
    /\ d_body.contracts[2].pair # d_body.contracts[1].pair
    /\ d_body.begin # d_body.end

\* C8: a delivery whose routing key's second segment is not the project tag,
\* or whose body does not parse as a BroadcastEpoch, causes no publish and no
\* write to the store, and the distributor goes on consuming.
Matching ==
    /\ Len(d_rk) >= 2
    /\ d_rk[2] = ProjectTag
    /\ ParsesAsEpoch(d_body)

C8_OtherMessagesDropped ==
    (n_inbound > 0 /\ ~Matching) =>
        /\ NumOps(d_trace, "publish") = 0
        /\ NumOps(d_trace, "zadd") = 0
        /\ d_pc \notin {"raised", "stopped"}

\* C9: a handler appends at most one entry, as its last effect, a
\* RabbitMQ.Publish entry under the broadcast's own id, and only when as many
\* WorkUnits as the broadcast has contracts have been published; a handler
\* of a valid BroadcastEpoch that returns has appended it.
C9_OnePublishEntryAfterAllUnits ==
    /\ NumOps(d_trace, "zadd") <= 1
    /\ \A i \in DIdx :
          d_trace[i].op = "zadd" =>
             /\ i = Len(d_trace)
             /\ ParsesAsEpoch(d_body)
             /\ d_trace[i].key = d_body.broadcast_id
             /\ NumOps(d_trace, "publish") = Len(d_body.contracts)
             /\ \E e \in progress_log[d_body.broadcast_id] :
                   e.action = "RabbitMQ.Publish" /\ e.msg = d_body
    /\ \A b \in BroadcastIds :
          Cardinality({e \in progress_log[b] : e.worker = "distributor"})
             <= (IF b <= n_inbound THEN 1 ELSE 0)
    /\ (n_inbound > 0 /\ d_pc = "idle" /\ Matching) => NumOps(d_trace, "zadd") = 1

\* C9, as stated: every valid BroadcastEpoch whose handler has ended, by
\* returning or by an exception that ended the consumer, has exactly one
\* RabbitMQ.Publish entry in the log keyed by its broadcast_id.
C9_EveryValidBroadcastLogged ==
    (n_inbound > 0 /\ Matching /\ d_pc \in {"idle", "stopped"}) =>
        Cardinality({e \in progress_log[d_body.broadcast_id] :
                        e.worker = "distributor"}) = 1

C9_Witness ==
    /\ DLogged
    /\ Len(d_body.contracts) = MaxContracts

C9_WitnessNoContracts ==
    /\ DLogged
    /\ Len(d_body.contracts) = 0

\* C10: after receiving any message the distributor eventually is idle again.
C10_ReturnsToIdle == (d_pc = "received") ~> (d_pc = "idle")

\* C11: a delivery to the worker whose body does not parse as a WorkUnit has
\* the acknowledgement as its only effect (no query, no dead-letter push, no
\* log write, no call of the audit service), and its handler returns.
C11_InvalidUnitOnlyAcked ==
    (n_units > 0 /\ w_body.kind # "unit") =>
        /\ \A i \in WIdx : w_trace[i].op = "ack"
        /\ w_pc \in {"received", "parse", "returned"}
        /\ w_reserves = "unset"
        /\ w_trade = "unset"
        /\ n_units = 1 => /\ \A b \in BroadcastIds : progress_log[b] = {}
                          /\ \A c \in UnitContracts : failed_q[c] = <<>>

C11_Witness ==
    /\ w_body = GarbageBody
    /\ w_pc = "returned"
    /\ Len(w_trace) = 1

\* C12, as stated: once a handler of the worker has ended, every error it met
\* (a failed build, an exception of commit_payload, a reply with a top-level
\* message) has an entry with status Failed in the log of the broadcast,
\* and the entry of an exception carries the exception.
FailedEntry(action, detail) ==
    \E e \in progress_log[w_body.broadcast_id] :
        /\ e.action = action
        /\ e.status = "Failed"
        /\ e.msg = w_body
        /\ e.detail = detail

C12_EveryErrorLoggedFailed ==
    WFinished =>
        /\ ReservesQueryFailed => FailedEntry("PairReserves.SnapshotBuild", "none")
        /\ WReplied("commit_payload", "reserves", "reject")
              => FailedEntry("PairReserves.SnapshotCommit", "error")
        /\ WReplied("commit_payload", "reserves", "exception")
              => FailedEntry("PairReserves.SnapshotCommit", "exception")
        /\ WReplied("commit_payload", "trade", "reject")
              => FailedEntry("TradeVolume.SnapshotCommit", "error")
        /\ WReplied("commit_payload", "trade", "exception")
              => FailedEntry("TradeVolume.SnapshotCommit", "exception")

(* ---------------------- properties of the rate-limit gate -------------- *)
RLEnded(c) == rl_call[c].pc \in {"issued", "raised"}

\* weight that limit l's hits admitted at the ticks a..b
RECURSIVE SumHits(_, _, _)
SumHits(l, a, b) ==
    IF a > b THEN 0
    ELSE (IF a \in 0..MaxTime THEN rl_hits[l][a] ELSE 0) + SumHits(l, a + 1, b)

\* first tick of the window of limit l's key
WindowStart(l) == rl_expiry[l] - Period(l)

\* C13, as stated: a gated call whose admission check met a store error, and
\* no denial, has issued its RPC calls.
C13_StoreErrorAdmits ==
    \A c \in Callers :
        (RLEnded(c) /\ rl_call[c].err /\ ~rl_call[c].denied)
            => rl_call[c].pc = "issued"

\* C14, as stated: the counter of a limit holds the weight of every hit since
\* its key was set, admitted or denied, and a gated call that met a denial
\* ends by raising, with no RPC call issued.
C14_FailClosed ==
    /\ \A l \in AllLimits : rl_count[l] = rl_seen[l]
    /\ \A c \in Callers :
          /\ (rl_call[c].pc = "checked" /\ rl_call[c].denied) => ~rl_call[c].can
          /\ (RLEnded(c) /\ rl_call[c].denied) => rl_call[c].pc = "raised"

\* C15, as stated: for every limit, the weight admitted at the ticks of any
\* interval of the limit's period is at most the limit's capacity.
C15_CapacityInAnyPeriod ==
    \A l \in Limits, t \in 0..MaxTime :
        SumHits(l, t, t + Period(l) - 1) <= Capacity(l)

\* C15, amended: the weight that the hits of one window admitted is at most
\* the capacity, and the weight admitted in any interval of the period is at
\* most twice the capacity less one.
C15_CapacityPerWindow ==
    \A l \in Limits :
        /\ rl_count[l] > 0 =>
              SumHits(l, WindowStart(l), rl_now) <= Capacity(l)
        /\ \A t \in 0..MaxTime :
              SumHits(l, t, t + Period(l) - 1) <= 2 * Capacity(l) - 1

C15_Witness ==
    /\ rl_now = 2
    /\ rl_count[1] > 0
    /\ WindowStart(1) = 2
    /\ rl_hits[1][0] > 0
    /\ rl_hits[1][1] + rl_hits[1][2] > Capacity(1)

(* ------------------- properties of the reserves snapshot --------------- *)
\* C16: a reserves snapshot exists only when the query of every block of
\* [begin, end] returned, once each and none failed, and its two maps then
\* hold an entry for exactly the blocks begin..end: end - begin + 1 entries.
C16_ReservesMapsCoverRange ==
    /\ w_reserves = "built" =>
          /\ w_resmap = w_body.begin .. w_body.end
          /\ Cardinality(w_resmap) = w_body.end - w_body.begin + 1
          /\ ~ReservesQueryFailed
          /\ \A b \in w_body.begin .. w_body.end :
                Cardinality({i \in WIdx : /\ w_trace[i].op = "getReserves"
                                          /\ w_trace[i].key = b
                                          /\ w_trace[i].reply = "ok"}) = 1
    /\ ReservesQueryFailed => w_reserves = "none"

C16_Witness ==
    /\ w_reserves = "built"
    /\ w_body.begin < w_body.end
    /\ w_pc = "reserves_commit"

C16_WitnessSingleBlock ==
    /\ w_reserves = "built"
    /\ w_body.begin = w_body.end
    /\ w_resmap = {w_body.end}

\* C17: when the header of the end block could not be fetched, the snapshot
\* is built with the wall-clock timestamp taken at the start of the build:
\* no query counts as failed, nothing is pushed onto the failed-epochs list,
\* the build entry says Success, and after the diff rule the snapshot is
\* handed to commit_payload.  A fetched header gives the block's timestamp.
TimestampFetchFailed == WReplied("get_block", "reserves", "exception")

C17_TimestampFallback ==
    /\ TimestampFetchFailed =>
          /\ w_reserves = "built"
          /\ w_ts = "wallclock"
          /\ ~ReservesQueryFailed
          /\ ~WHas("rpush", "reserves")
          /\ w_pc # "reserves_log" =>
                \E e \in progress_log[w_body.broadcast_id] :
                   /\ e.action = "PairReserves.SnapshotBuild"
                   /\ e.status = "Success"
                   /\ e.msg = w_body
          /\ (WReplied("set_diff_rule", "reserves", "ok") /\ w_pc # "reserves_commit")
                => WHas("commit_payload", "reserves")
    /\ WReplied("get_block", "reserves", "ok") => w_ts = "block"

C17_Witness ==
    /\ TimestampFetchFailed
    /\ w_body.begin < w_body.end
    /\ WReplied("commit_payload", "reserves", "ok")

(* -------------------- properties of the pricing engine ----------------- *)
PXReturned == px_call.pc = "returned"
PXRange == px_call.from .. px_call.to

\* entry k has a pair with the token and at least 1 ETH of reserve at every
\* block of the range
Qualifies(k) ==
    /\ px_chain[k].pair
    /\ \A b \in PXRange : ReserveInEth(px_chain, k, b) >= 1

\* the first qualifying entry in declared order, 0 when there is none
FirstQualifying ==
    IF \E k \in 1..Len(Whitelist) : Qualifies(k)
    THEN CHOOSE k \in 1..Len(Whitelist) :
            Qualifies(k) /\ \A j \in 1..(k - 1) : ~Qualifies(j)
    ELSE 0

\* no entry's pair holds 1 ETH of reserve at any block of the range
NeverReachesMinimum ==
    \A k \in 1..Len(Whitelist), b \in PXRange :
        ~(px_chain[k].pair /\ ReserveInEth(px_chain, k, b) >= 1)

\* C18, as stated: the map that a call returns, from the cache or computed,
\* has exactly the blocks from..to as its keys.
C18_DomainIsRange ==
    PXReturned => DOMAIN px_call.price = PXRange

\* C19: when the prices of a token other than WETH are computed, the ETH
\* price series is that of the first qualifying whitelist entry at every
\* block of the range (empty when no entry qualifies), the USD prices are
\* that series times the ETH price, and no entry after the qualifying one
\* has its reserves fetched.
C19_FirstQualifyingEntryOnly ==
    (PXReturned /\ px_token = "TKN" /\ px_call.path = "computed") =>
        /\ px_call.used = FirstQualifying
        /\ px_call.eth = IF FirstQualifying = 0 THEN EmptyDict
                         ELSE [b \in PXRange |-> TokenInEth(px_chain, FirstQualifying, b)]
        /\ FirstQualifying # 0 =>
              /\ \A i \in 1..Len(px_call.consulted) :
                    px_call.consulted[i] <= FirstQualifying
              /\ px_call.price =
                    [b \in PXRange |-> TokenInEth(px_chain, FirstQualifying, b) * EthUsd(b)]

C19_Witness ==
    /\ PXReturned
    /\ px_call.path = "computed"
    /\ px_call.from < px_call.to
    /\ px_chain[1].pair
    /\ ReserveInEth(px_chain, 1, px_call.from) = 1
    /\ ReserveInEth(px_chain, 1, px_call.to) = 0
    /\ px_call.used = 2

\* C20: for a token other than WETH, when no whitelist pair holds 1 ETH of
\* reserve at any block of the range (or there is no pair), the call returns
\* price 0 for every block of the range and the ETH/USD price is not queried;
\* the same holds for every computed result for which no entry qualifies.
C20_AllZeroWithoutLiquidity ==
    (PXReturned /\ px_token = "TKN") =>
        /\ NeverReachesMinimum =>
              /\ px_call.price = [b \in PXRange |-> 0]
              /\ ~px_call.ethusd
        /\ (px_call.path = "computed" /\ FirstQualifying = 0) =>
              /\ px_call.price = [b \in PXRange |-> 0]
              /\ ~px_call.ethusd

C20_Witness ==
    /\ PXReturned
    /\ px_token = "TKN"
    /\ px_call.path = "computed"
    /\ px_call.from < px_call.to
    /\ FirstQualifying = 0
    /\ px_chain[1].pair
    /\ ReserveInEth(px_chain, 1, px_call.from) = 1
    /\ px_chain[2].pair

C20_WitnessNoPair ==
    /\ PXReturned
    /\ px_token = "TKN"
    /\ px_call.path = "computed"
    /\ ~px_chain[1].pair
    /\ ~px_chain[2].pair
    /\ px_call.price = [b \in PXRange |-> 0]

\* the entry after k that the loop of lines 217-279 settles on when entry k
\* is abandoned: the first qualifying one among the later entries, 0 if none
NextQualifying(k) ==
    IF \E j \in (k + 1)..Len(Whitelist) : Qualifies(j)
    THEN CHOOSE j \in (k + 1)..Len(Whitelist) :
            Qualifies(j) /\ \A m \in (k + 1)..(j - 1) : ~Qualifies(m)
    ELSE 0

\* C21: for every whitelist entry with a pair and every block of a requested
\* range at which either reserve of the pair is 0, the pair price function
\* gives price 0 and whitelist reserve 0 without dividing and without
\* raising; when the prices are computed and such an entry was consulted, the
\* entry is not the one used, and the call returns with the prices of the
\* next qualifying entry (all 0 when there is none).
C21_ZeroReservePricedZero ==
    (proc = "pricing" /\ px_call.pc # "idle") =>
        \A k \in 1..Len(Whitelist), b \in PXRange :
            (/\ px_chain[k].pair
             /\ \/ PairReserves(px_chain, k, b)[1] = 0
                \/ PairReserves(px_chain, k, b)[2] = 0) =>
                /\ EntryAt(px_chain, k, b).price = 0
                /\ EntryAt(px_chain, k, b).reserve = 0
                /\ ~EntryAt(px_chain, k, b).divided
                /\ ~EntryAt(px_chain, k, b).raised
                /\ (/\ PXReturned
                    /\ px_call.path = "computed"
                    /\ \E i \in 1..Len(px_call.consulted) : px_call.consulted[i] = k) =>
                       /\ px_call.used # k
                       /\ px_call.used = NextQualifying(k)
                       /\ px_call.price =
                             [h \in PXRange |->
                                 IF NextQualifying(k) = 0 THEN 0
                                 ELSE TokenInEth(px_chain, NextQualifying(k), h) * EthUsd(h)]

\* the first entry's pair holds the entry but none of the token at a block
\* of the range; the entry is abandoned and the second entry is used
C21_Witness ==
    /\ PXReturned
    /\ px_call.path = "computed"
    /\ px_chain[1].pair
    /\ PairReserves(px_chain, 1, px_call.from) = <<1, 0>>
    /\ px_call.consulted = <<1, 2>>
    /\ px_call.used = 2
    /\ px_call.price = [h \in PXRange |-> TokenInEth(px_chain, 2, h) * EthUsd(h)]

\* both reserves of the first entry's pair are 0 at a block of the range
C21_WitnessBothZero ==
    /\ PXReturned
    /\ px_call.path = "computed"
    /\ px_chain[1].pair
    /\ \E b \in PXRange : PairReserves(px_chain, 1, b) = <<0, 0>>
    /\ px_call.consulted = <<1, 2>>
    /\ px_call.used = 2

\* C22, as stated: the cache of a token holds at most one price point for
\* each block height, whatever write-backs came before; a write for a height
\* that is present replaces the earlier point.
C22_OnePointPerHeight ==
    \A m1 \in px_cache, m2 \in px_cache :
        m1.blockHeight = m2.blockHeight => m1 = m2

\* C23, as stated: a call is answered from the cache, leaving the cache as
\* it is, exactly when the range query for [from, to] yields to - from + 1
\* points; otherwise the computed prices are returned and written back; and
\* after a call that returned the cache holds a point for every block of
\* [from, to].
C23_CacheExactlyWhenComplete ==
    [][(px_call.pc = "called" /\ px_call'.pc = "returned") =>
          LET n == Cardinality(CacheRange(px_cache, px_call.from, px_call.to))
          IN /\ (px_call'.path = "cache") <=> (n = px_call.to - px_call.from + 1)
             /\ (px_call'.path = "cache") => px_cache' = px_cache
             /\ (px_call'.path # "cache") =>
                   /\ px_call'.path = "computed"
                   /\ \A b \in px_call.from..px_call.to :
                         [blockHeight |-> b, price |-> px_call'.price[b]] \in px_cache'
             /\ \A b \in px_call.from..px_call.to :
                   \E m \in px_cache' : m.blockHeight = b]_vars

(* ---------------------- properties of the trade volume ----------------- *)
TVBuilt == proc = "trades" /\ tv_pc = "built"

\* a price that is not there counts as 0
PriceOr0(p) == IF p = NoPrice THEN 0 ELSE p

\* sum of the first n numbers of a sequence of numbers
RECURSIVE SumFirst(_, _)
SumFirst(nums, n) == IF n = 0 THEN 0 ELSE nums[n] + SumFirst(nums, n - 1)

\* sum of f over the elements of a sequence
SumSeq(seq, f(_)) == SumFirst([i \in DOMAIN seq |-> f(seq[i])], Len(seq))

\* 0.30% of the input side of one log in thousandths of a dollar: 3 for each
\* whole token of input, times the token's price; nothing for Mint and Burn
ThirtyBasisPoints(log) ==
    IF log.event # "Swap" THEN 0
    ELSE (log.args.amount0In \div (10 ^ Decimals)) * 3 * PriceOr0(tv_price0)
         + (log.args.amount1In \div (10 ^ Decimals)) * 3 * PriceOr0(tv_price1)

\* C24, as stated: the total fee of a snapshot is 0.30% of the input-side
\* amount of every Swap log, normalized by the decimals and multiplied by the
\* input token's price, summed over the Swap logs of the epoch; Mint and Burn
\* logs add nothing.
C24_FeeIsThirtyBasisPoints ==
    TVBuilt => tv_snapshot.totalFee = SumSeq(tv_logs, ThirtyBasisPoints)

\* the known-price rule for amounts t0 and t1 of an event type
KnownPriceRule(ev, t0, t1) ==
    LET k0 == tv_price0 # NoPrice
        k1 == tv_price1 # NoPrice
    IN IF ev = "Swap"
       THEN IF k0 THEN t0 * tv_price0 ELSE IF k1 THEN t1 * tv_price1 ELSE 0
       ELSE IF k0 /\ k1 THEN t0 * tv_price0 + t1 * tv_price1
            ELSE IF k0 THEN 2 * t0 * tv_price0
            ELSE IF k1 THEN 2 * t1 * tv_price1
            ELSE 0

\* C25, as stated: for every event type that was extracted, the total USD
\* volume follows the known-price rule applied to the type's token totals,
\* and the USD amount of every log follows the rule applied to the log's
\* amounts, for every combination of prices that are or are not there.
C25_KnownPriceRule ==
    proc = "trades" =>
        \A ev \in DOMAIN tv_rets :
            LET t == tv_rets[ev].trades
            IN /\ t.totalTradesUSD =
                     KnownPriceRule(ev, t.token0TradeVolume, t.token1TradeVolume)
               /\ \A i \in DOMAIN t.recent_transaction_logs :
                     LET r == t.recent_transaction_logs[i]
                     IN r.trade_amount_usd =
                           KnownPriceRule(ev, r.token0_amount, r.token1_amount)

\* the per-event record of an event of the snapshot
PerEvent(e) ==
    LET recent == tv_rets[e.event].trades.recent_transaction_logs
    IN recent[CHOOSE i \in DOMAIN recent : recent[i].logIndex = e.logIndex]
EventToken0(e) == PerEvent(e).token0_amount
EventToken1(e) == PerEvent(e).token1_amount
EventUsd(e) == PerEvent(e).trade_amount_usd

\* C26, as stated: in every snapshot the token0 total, the token1 total and
\* the USD total are the sums of the token0, token1 and USD amounts of the
\* events of the snapshot.
C26_TotalsAreSumsOfEvents ==
    TVBuilt =>
        /\ tv_snapshot.token0TradeVolume = SumSeq(tv_snapshot.events, EventToken0)
        /\ tv_snapshot.token1TradeVolume = SumSeq(tv_snapshot.events, EventToken1)
        /\ tv_snapshot.totalTrade = SumSeq(tv_snapshot.events, EventUsd)

\* the token totals are the sums over the events
C26_VolumesAreSumsOfEvents ==
    TVBuilt =>
        /\ tv_snapshot.token0TradeVolume = SumSeq(tv_snapshot.events, EventToken0)
        /\ tv_snapshot.token1TradeVolume = SumSeq(tv_snapshot.events, EventToken1)

\* total_token0_volume x price of token0 + total_token1_volume x price of
\* token1 of the snapshot, a price that is not there counting as 0
VolumeBound ==
    tv_snapshot.token0TradeVolume * PriceOr0(tv_price0)
    + tv_snapshot.token1TradeVolume * PriceOr0(tv_price1)

\* C27, as stated: the USD total of every snapshot is at most the token0
\* total times token0's price plus the token1 total times token1's price,
\* for every mix of events and every combination of prices.
C27_TradeUsdWithinVolumeBound ==
    TVBuilt => tv_snapshot.totalTrade <= VolumeBound

\* C27, amended: the USD total is at most twice that bound in every case,
\* and at most the bound itself when both prices are there and neither is 0
\* or when the snapshot has no Mint and no Burn event.
C27_TradeUsdWithinTwiceVolumeBound ==
    TVBuilt =>
        /\ tv_snapshot.totalTrade <= 2 * VolumeBound
        /\ (\/ PriceOr0(tv_price0) # 0 /\ PriceOr0(tv_price1) # 0
            \/ \A i \in DOMAIN tv_snapshot.events :
                  tv_snapshot.events[i].event = "Swap") =>
              tv_snapshot.totalTrade <= VolumeBound

\* a Swap and a Mint with only token0's price there: the total is above the
\* bound and within twice the bound
C27_Witness ==
    /\ TVBuilt
    /\ tv_price0 = 2
    /\ tv_price1 = NoPrice
    /\ \E i \in DOMAIN tv_snapshot.events : tv_snapshot.events[i].event = "Swap"
    /\ \E i \in DOMAIN tv_snapshot.events : tv_snapshot.events[i].event = "Mint"
    /\ tv_snapshot.totalTrade > VolumeBound
    /\ tv_snapshot.totalTrade <= 2 * VolumeBound

\* both prices there and not 0, with a Swap and a Burn: within the bound
C27_WitnessBothPrices ==
    /\ TVBuilt
    /\ tv_price0 = 2
    /\ tv_price1 = 1
    /\ \E i \in DOMAIN tv_snapshot.events : tv_snapshot.events[i].event = "Swap"
    /\ \E i \in DOMAIN tv_snapshot.events : tv_snapshot.events[i].event = "Burn"
    /\ tv_snapshot.totalTrade > 0

\* C28, as stated: the events of every snapshot hold every log of the epoch
\* exactly once and are in ascending order of (block number, log index)
\* across the three event types.
C28_EventsInChainOrder ==
    TVBuilt =>
        /\ Len(tv_snapshot.events) = Len(tv_logs)
        /\ \A l \in DOMAIN tv_logs :
              \E i \in DOMAIN tv_snapshot.events : tv_snapshot.events[i] = tv_logs[l]
        /\ \A i \in DOMAIN tv_snapshot.events, j \in DOMAIN tv_snapshot.events :
              i < j =>
                 LET a == tv_snapshot.events[i]
                     b == tv_snapshot.events[j]
                 IN \/ a.blockNumber < b.blockNumber
                    \/ a.blockNumber = b.blockNumber /\ a.logIndex < b.logIndex

\* every log of the epoch is in the events exactly once
C28_EveryLogOnce ==
    TVBuilt =>
        /\ Len(tv_snapshot.events) = Len(tv_logs)
        /\ \A l \in DOMAIN tv_logs :
              \E i \in DOMAIN tv_snapshot.events : tv_snapshot.events[i] = tv_logs[l]

CompleteMetadata == Metadata(ChainAddrs, ChainData)
SingleLookupAddrs == ChainAddrs
SingleLookupData == DataMapping(ChainData)

\* the lookup of w returned metadata that it put together from the addresses
\* of the cache while the cache had no token data
FromPartialEntry(call) ==
    /\ call.returned = "metadata"
    /\ call.addrs_from = "cache"
    /\ call.data_from = "chain"

\* no lookup is under way and none has failed
AllReturnedMetadata(calls) ==
    /\ \A w \in Workers : calls[w].pc \in {"idle", "done"}
    /\ \A w \in Workers : calls[w].returned # "empty"
    /\ \E w \in Workers : calls[w].returned = "metadata"

C30_WitnessDuplicateWork ==
    /\ proc = "metadata"
    /\ \A w \in Workers :
          /\ md_call[w].returned = "metadata"
          /\ md_call[w].addrs_from = "chain"
          /\ md_call[w].data_from = "chain"

\* C31: a build of the reserves snapshot fails because of the pair metadata
\* only after the metadata was fetched a second time for the block, the
\* first fetch having failed.
C31_MetadataRetriedOnce ==
    rs_cause = "metadata" => rs_meta_calls[rs_block_num] = 2

\* the helper fetches the metadata once for a block, whatever the fetch
\* returns
C31_MetadataFetchedOncePerBlock ==
    \A b \in EpochBlocks : rs_meta_calls[b] <= 1

\* C32: after the prune with current block c no point below c - 20 is left
\* and every point at c - 20 or above that was there before is still there,
\* the point at exactly c - 20 included.
C32_PruneKeepsBoundary ==
    pr_pruned =>
        pr_zset = {h \in pr_before : h >= pr_price_block - PruneDepth}

\* the prune removes the points at c - 20 and below and no other
C32_PruneRemovesBoundary ==
    pr_pruned =>
        pr_zset = {h \in pr_before : h > pr_price_block - PruneDepth}

\* C33: when every hit of a reserves build over [begin, end] was admitted,
\* the score charged to each limit for the built snapshot is end - begin + 1.
RSAllAdmitted == rs_snapshot = "built" /\ ~rs_not_admitted

C33_ChargedOnePerBlock ==
    RSAllAdmitted =>
        \A l \in Limits : rs_charged[l] = rs_end - rs_begin + 1

\* C33 (amended): each configured limit is charged one per block of the
\* epoch and one more for the block details of the last block, that is
\* end - begin + 2.
C33_ChargedOnePerBlockAndTimestamp ==
    RSAllAdmitted =>
        \A l \in Limits : rs_charged[l] = rs_end - rs_begin + 2

\* a snapshot over two blocks or more was built under two limits, every hit
\* admitted
C33_Witness ==
    /\ proc = "reserves"
    /\ RSAllAdmitted
    /\ rs_begin < rs_end
    /\ rl_limits = 2
    /\ rs_resmap = rs_begin..rs_end

\* C34: getReserves is attempted at most three times for a block; after an
\* attempt that returned there is no further attempt for the block; the
\* third failed attempt ends the loop and fails the build, and no build
\* fails because of getReserves before the third attempt.
C34_GetReservesAtMostThrice ==
    [][\A b \in EpochBlocks :
          /\ rs_attempts'[b] <= 3
          /\ rs_reserves[b] = "ok" => rs_attempts'[b] = rs_attempts[b]
          /\ rs_attempts'[b] = 3 /\ rs_reserves'[b] = "exception" =>
                /\ rs_pc' = "done"
                /\ rs_snapshot' = "none"
                /\ rs_cause' = "getReserves"
          /\ rs_cause' = "getReserves" /\ b = rs_block_num' =>
                rs_attempts'[b] = 3]_vars

\* the third attempt failed and the build returned None
C34_Witness ==
    /\ proc = "reserves"
    /\ \E b \in EpochBlocks :
          rs_attempts[b] = 3 /\ rs_reserves[b] = "exception"
    /\ rs_snapshot = "none"
    /\ rs_rpush = 1

\* two attempts failed, the third returned, and the snapshot was built
C34_WitnessThirdAttemptReturns ==
    /\ proc = "reserves"
    /\ \E b \in EpochBlocks : rs_attempts[b] = 3 /\ rs_reserves[b] = "ok"
    /\ rs_snapshot = "built"

\* C35: while a delivered WorkUnit is handled, the unit is appended to the
\* failed-epochs list of its pair once when the reserves build fails and
\* once when the trade-volume build fails, and at no other step: the
\* handler's pushes are as many as its failed builds (0, 1 or 2).
FailedBuilds ==
    (IF w_reserves = "none" THEN 1 ELSE 0) + (IF w_trade = "none" THEN 1 ELSE 0)
Pushes == Cardinality({i \in WIdx : w_trace[i].op = "rpush"})

C35_WitnessNoFailure ==
    /\ proc = "worker"
    /\ w_pc = "returned"
    /\ w_reserves = "built"
    /\ w_trade = "built"
    /\ failed_q = [c \in UnitContracts |-> <<>>]

\* C36: for each stream, a call of commit_payload comes after the zadd of
\* the stream's SnapshotBuild entry with status Success and after a
\* set_diff_rule of the stream that returned; when set_diff_rule of a stream
\* raised, the handler has called no commit_payload for the stream and has
\* written no SnapshotCommit entry of the stream.
Streams == {"reserves", "trade"}
CommitAction(stream) ==
    IF stream = "reserves" THEN "PairReserves.SnapshotCommit"
    ELSE "TradeVolume.SnapshotCommit"
BuildAction(stream) ==
    IF stream = "reserves" THEN "PairReserves.SnapshotBuild"
    ELSE "TradeVolume.SnapshotBuild"

C36_CommitAfterBuildLogAndDiffRule ==
    \A s \in Streams :
        /\ \A i \in WIdx :
              (w_trace[i].op = "commit_payload" /\ w_trace[i].stream = s) =>
                 \E k \in 1..(i - 1) :
                    /\ w_trace[k].op = "set_diff_rule"
                    /\ w_trace[k].stream = s
                    /\ w_trace[k].reply = "ok"
                    /\ \E j \in 1..(k - 1) :
                          /\ w_trace[j].op = "zadd"
                          /\ w_trace[j].stream = s
                          /\ w_trace[j].entry.action = BuildAction(s)
                          /\ w_trace[j].entry.status = "Success"
        /\ WReplied("set_diff_rule", s, "exception") =>
              /\ ~WHas("commit_payload", s)
              /\ ~\E i \in WIdx :
                     /\ w_trace[i].op = "zadd"
                     /\ w_trace[i].entry.action = CommitAction(s)
              /\ n_units = 1 =>
                    ~\E e \in progress_log[w_body.broadcast_id] :
                         e.action = CommitAction(s)
              /\ w_pc = "raised"

\* set_diff_rule of the trade-volume stream raised after the reserves stream
\* was committed
C36_Witness ==
    /\ proc = "worker"
    /\ WReplied("commit_payload", "reserves", "ok")
    /\ WReplied("set_diff_rule", "trade", "exception")
    /\ w_pc = "raised"

\* both streams were committed
C36_WitnessBothCommitted ==
    /\ proc = "worker"
    /\ WReplied("commit_payload", "reserves", "ok")
    /\ WReplied("commit_payload", "trade", "ok")
    /\ w_pc = "returned"

\* C37: once a call for [from, to] found no qualifying entry and wrote its
\* all-zero prices to the cache, the calls for [from, to] that follow it are
\* answered from the cache with price 0 for every block, without computing
\* anything.
PXEnds == px_call.pc = "called" /\ px_call'.pc \in {"returned", "raised"}
PXZeroedBefore == px_call.zeroed

C37_CachedZerosServed ==
    [][(PXEnds /\ PXZeroedBefore) =>
          /\ px_call'.pc = "returned"
          /\ px_call'.path = "cache"
          /\ px_call'.price = [b \in px_call.from..px_call.to |-> 0]]_vars

\* the cached zeros are served when no block of the range has a second
\* point in the cache
C37_CachedZerosServedIfOnePointPerHeight ==
    [][(/\ PXEnds
        /\ PXZeroedBefore
        /\ \A m \in CacheRange(px_cache, px_call.from, px_call.to) :
              m.price = 0) =>
          /\ px_call'.pc = "returned"
          /\ px_call'.path = "cache"
          /\ px_call'.price = [b \in px_call.from..px_call.to |-> 0]]_vars

\* C38: the aggregation worker acknowledges a delivery only when its body
\* was parsed and its processor task created; a delivery whose task type is
\* not configured, whose event is not one the handler knows, or whose body
\* does not parse as the event's message is never acknowledged and gets no
\* task.
AggRejected ==
    /\ ag_msg # NoAggMsg
    /\ \/ ag_msg.type \notin TaskTypes
       \/ TaskTypeEventMapping(ag_msg.type) \notin {"IndexFinalized", "AggregateFinalized"}
       \/ ag_msg.body # TaskTypeEventMapping(ag_msg.type)

C38_AckAfterParseAndSchedule ==
    /\ ag_acked =>
          /\ ag_parsed
          /\ ag_scheduled
          /\ ag_task[n_agg_msgs].pc # "none"
          /\ ag_pc = "returned"
    /\ AggRejected =>
          /\ ~ag_acked
          /\ ~ag_scheduled
          /\ ag_task[n_agg_msgs] = NoAggTask
          /\ ag_pc \in {"received", "init", "parse", "returned", "raised"}

\* a delivery was parsed, its task created and the delivery acknowledged
C38_Witness ==
    /\ proc = "aggregation"
    /\ ag_acked
    /\ ag_msg.type = "aggregate"
    /\ ag_pc = "returned"

\* a delivery whose body does not parse was returned without acknowledgement
C38_WitnessBadBody ==
    /\ proc = "aggregation"
    /\ ag_msg = [type |-> "indexed", body |-> "garbage"]
    /\ ag_pc = "returned"
    /\ ~ag_acked

\* a delivery of a task type with an unknown event was returned
C38_WitnessUnknownEvent ==
    /\ proc = "aggregation"
    /\ ag_msg.type = "other"
    /\ ag_pc = "returned"
    /\ ~ag_acked

\* C39: every task that has an entry in _running_callback_tasks is still
\* running: a task that ended, by returning or by raising, has no entry.
C39_OnlyRunningTasksRegistered ==
    \A t \in ag_running : AggRunning(ag_task[t])

\* a task that ended by returning has no entry
C39_ReturnedTasksRemoved ==
    \A t \in AggTasks : ag_task[t].pc = "done" => t \notin ag_running

\* C40: with a semaphore of K permits at most K calls are inside the wrapped
\* function at any moment; the permits that are out are those of the calls
\* between acquire and release; and when every call has ended, by returning
\* or by raising, the semaphore holds K permits again.
SMInBody == {t \in Threads : sm_pc[t] = "body"}
SMHolding == {t \in Threads : sm_pc[t] \in {"body", "finally"}}

C40_AtMostKAndAllReleased ==
    /\ Cardinality(SMInBody) <= sm_permits
    /\ sm_value = sm_permits - Cardinality(SMHolding)
    /\ sm_value >= 0
    /\ (\A t \in Threads : sm_pc[t] = "ended") => sm_value = sm_permits

\* a call has raised and ended, the permits are all out again and a thread
\* waits in acquire
C40_Witness ==
    /\ proc = "semaphore"
    /\ \E t \in Threads : sm_pc[t] = "ended" /\ sm_outcome[t] = "raised"
    /\ Cardinality(SMInBody) = sm_permits
    /\ \E t \in Threads : sm_pc[t] = "acquire"

\* every call has ended, each by raising
C40_WitnessAllRaised ==
    /\ proc = "semaphore"
    /\ \A t \in Threads : sm_pc[t] = "ended" /\ sm_outcome[t] = "raised"
    /\ sm_value = sm_permits
=============================================================================
